---- MODULE Spec2Model ----
(***************************************************************************)
(* Storage pipeline of oasis-core: the Badger-backed MKVS node database    *)
(* (go/storage/mkvs/db/badger) and the storage committee worker            *)
(* (go/worker/storage/committee/node.go) that fetches, applies and         *)
(* finalizes per-round write logs.                                         *)
(***************************************************************************)
EXTENDS Integers, Sequences, FiniteSets, TLC

(***************************************************************************)
(* Bounds of the model.                                                    *)
(***************************************************************************)
\* Highest version (round) the node database specification commits into.
MaxVersion == 2
\* Most batches the node database specification commits.
MaxCommits == 3
\* The highest round of a block the roothash client processes.
MaxWatchRound == 4
\* Most batches committed when batches stay open between NewBatch and Commit.
MaxBatchCommits == 2
\* Most crashes of the process holding the node database, and most batches committed
\* in the runs with crashes.
MaxCrashes == 2
MaxCrashCommits == 2

\* Keys and values a tree can hold.
Keys == {"k1", "k2"}
Vals == {1}
Versions == 0..MaxVersion
RootTypes == {"state", "io"}

(***************************************************************************)
(* Program constants.                                                      *)
(***************************************************************************)
\* The multipart version in metadata when no multipart restore is running.
multipartVersionNone == 0

\* WatchBlocks: the last emitted round before any block is emitted.
invalidRound == 2147483647

\* The most write-log records GetWriteLog follows from the end root to the start root.
maxAllowedHops == 2

(***************************************************************************)
(* Trees.  A node hash stands for the node's contents (a root hash          *)
(* determines the tree), and a node's created version is part of its hash. *)
(* A tree over Keys is one internal root node with one leaf per key.       *)
(***************************************************************************)
NoLeaf == <<0, 0>>

EmptyHash == [kind |-> "empty", ver |-> 0, key |-> "", val |-> 0, kids |-> <<>>]

LeafNode(k, p) == [kind |-> "leaf", ver |-> p[2], key |-> k, val |-> p[1], kids |-> <<>>]

InternalNode(version, kids) ==
    [kind |-> "internal", ver |-> version, key |-> "", val |-> 0, kids |-> kids]

KeySeq == <<"k1", "k2">>

\* The leaf pointers <<value, created version>> of the tree with root hash h, in KeySeq order.
TreeKids(h) == IF h.kind = "internal" THEN h.kids ELSE [i \in 1..Len(KeySeq) |-> NoLeaf]

KeyIndex(k) == CHOOSE i \in 1..Len(KeySeq) : KeySeq[i] = k

\* Hashes of the nodes reachable from the root hash h.
TreeNodes(h) ==
    IF h.kind # "internal" THEN {}
    ELSE {h} \cup {LeafNode(KeySeq[i], h.kids[i]) : i \in {j \in 1..Len(KeySeq) : h.kids[j] # NoLeaf}}

\* One write-log entry <<key, value>> applied at a version; value 0 is a tombstone.
ApplyEntry(kids, entry, version) ==
    LET i == KeyIndex(entry[1])
    IN  IF entry[2] = 0 THEN [kids EXCEPT ![i] = NoLeaf]
        ELSE IF kids[i] # NoLeaf /\ kids[i][1] = entry[2] THEN kids
        ELSE [kids EXCEPT ![i] = <<entry[2], version>>]

RECURSIVE ApplyEntries(_, _, _)
ApplyEntries(kids, wl, version) ==
    IF wl = <<>> THEN kids
    ELSE ApplyEntries(ApplyEntry(kids, Head(wl), version), Tail(wl), version)

\* Root hash of the tree that results from applying write log wl to the tree oldHash.
ApplyWriteLog(oldHash, wl, version) ==
    LET kids == ApplyEntries(TreeKids(oldHash), wl, version)
    IN  IF kids = TreeKids(oldHash) THEN oldHash
        ELSE IF \A i \in 1..Len(KeySeq) : kids[i] = NoLeaf THEN EmptyHash
        ELSE InternalNode(version, kids)

\* No inserted node: the annotation of an entry that removes its key.
NoNode == [kind |-> "none", ver |-> 0, key |-> "", val |-> 0, kids |-> <<>>]

\* The write log's annotations: for each entry the leaf the tree holds for its key
\* once the entry is applied.
RECURSIVE Annotations(_, _, _)
Annotations(kids, wl, version) ==
    IF wl = <<>> THEN <<>>
    ELSE LET next == ApplyEntry(kids, Head(wl), version)
             i == KeyIndex(Head(wl)[1])
         IN  <<IF next[i] = NoLeaf THEN NoNode ELSE LeafNode(Head(wl)[1], next[i])>>
                \o Annotations(next, Tail(wl), version)

(***************************************************************************)
(* Node database records.                                                  *)
(***************************************************************************)
Root(version, type, hash) == [version |-> version, type |-> type, hash |-> hash]

typedHashFromRoot(root) == <<root.type, root.hash>>

typedHashFromParts(type, hash) == <<type, hash>>

\* Root.Follows: the version is equal to or exactly one higher than the other's.
Follows(root, other) == root.version = other.version \/ root.version = other.version + 1

\* Badger keeps a value per (key, timestamp); nodes are written at the version's timestamp.
\* A read at timestamp ts sees the newest entry of the key at or below ts.
NodeVisible(nodes, th, ts) ==
    \E e \in nodes :
        /\ e.th = th /\ e.ts <= ts /\ ~e.deleted
        /\ \A f \in nodes : (f.th = th /\ f.ts <= ts) => f.ts <= e.ts

\* A write batch flushed at timestamp ts: every key of ths is set.
NodeSetAll(nodes, ths, ts) ==
    {e \in nodes : ~(e.th \in ths /\ e.ts = ts)}
        \cup {[th |-> th, ts |-> ts, deleted |-> FALSE] : th \in ths}

\* A write batch flushed at timestamp ts: every key of ths is deleted.
NodeDeleteAll(nodes, ths, ts) ==
    {e \in nodes : ~(e.th \in ths /\ e.ts = ts)}
        \cup {[th |-> th, ts |-> ts, deleted |-> TRUE] : th \in ths}

\* A freshly created database (New + load): metadata only.
NewDB(readOnly, discardWriteLogs) ==
    [ readOnly         |-> readOnly,
      discardWriteLogs |-> discardWriteLogs,
      closed           |-> FALSE,
      multipartVersion |-> multipartVersionNone,
      meta             |-> [ earliestVersion      |-> 0,
                             lastFinalizedVersion |-> 0,
                             lastFinalizedExists  |-> FALSE,
                             multipartVersion     |-> multipartVersionNone ],
      rootsMeta        |-> [v \in {} |-> <<>>],
      updatedNodes     |-> [k \in {} |-> {}],
      nodes            |-> {},
      writeLogs        |-> {},
      multipartLog     |-> {} ]

\* loadRootsMetadata: the version's map root -> derived roots, empty when none is stored.
loadRootsMetadata(db, version) ==
    IF version \in DOMAIN db.rootsMeta THEN db.rootsMeta[version] ELSE [r \in {} |-> <<>>]

saveRootsMetadata(rootsMeta, version, roots) ==
    [v \in DOMAIN rootsMeta \cup {version} |-> IF v = version THEN roots ELSE rootsMeta[v]]

Result(db, err) == [db |-> db, err |-> err]

(***************************************************************************)
(* Node database reads.                                                    *)
(***************************************************************************)
\* GetNode: "ok" when the node is readable at the root's version.
GetNode(db, root, hash) ==
    IF root.version < db.meta.earliestVersion THEN "ErrNodeNotFound"
    ELSE IF NodeVisible(db.nodes, typedHashFromParts(root.type, hash), root.version) THEN "ok"
    ELSE "ErrNodeNotFound"

\* A HasRoot for which the empty root is present only when it is registered.
HasRootRegistered(db, root) ==
    IF root.version < db.meta.earliestVersion THEN FALSE
    ELSE typedHashFromRoot(root) \in DOMAIN loadRootsMetadata(db, root.version)

HasRoot(db, root) ==
    IF root.hash = EmptyHash THEN TRUE
    ELSE IF root.version < db.meta.earliestVersion THEN FALSE
    ELSE typedHashFromRoot(root) \in DOMAIN loadRootsMetadata(db, root.version)

\* The namespace every store of the model is opened for, and a foreign one.
StoreNamespace == "ns"
Namespaces == {StoreNamespace, "other"}

sanityCheckNamespace(db, ns) == ns = StoreNamespace

\* HasRoot for a root of the given namespace: the namespace is checked first.
HasRootOf(db, ns, root) ==
    IF ~sanityCheckNamespace(db, ns) THEN FALSE ELSE HasRoot(db, root)

GetRootsForVersion(db, version) ==
    IF version < db.meta.earliestVersion THEN {}
    ELSE {Root(version, rh[1], rh[2]) : rh \in DOMAIN loadRootsMetadata(db, version)}

\* api.Visit: walks the tree from the root through GetNode; fails on the first missing node.
Visit(db, root) ==
    IF \A n \in TreeNodes(root.hash) : GetNode(db, root, n) = "ok" THEN "ok" ELSE "ErrNodeNotFound"

\* The write-log records stored under the prefix (version, end root hash).
WriteLogsInto(db, version, th) ==
    {w \in db.writeLogs : w.version = version /\ w.new = th}

\* The search of GetWriteLog from the typed hash th towards start: the paths of at most
\* hops records, each a sequence of records from the end root backwards; a path ends at
\* the first record whose old root is start.
RECURSIVE WriteLogPaths(_, _, _, _, _)
WriteLogPaths(db, version, th, start, hops) ==
    IF hops = 0 THEN {}
    ELSE {<<w>> : w \in {x \in WriteLogsInto(db, version, th) : x.old = start}}
         \cup UNION {{<<w>> \o p : p \in WriteLogPaths(db, version, w.old, start, hops - 1)} :
                        w \in {x \in WriteLogsInto(db, version, th) : x.old # start}}

\* api.ReviveHashedDBWriteLogs for one record: a removal has no value, an insert has
\* the value of the leaf read through GetNode at the record's root; a leaf that
\* cannot be read ends the stream with the error.
ReviveHashedDBWriteLog(db, root, log) ==
    [i \in 1..Len(log) |->
        IF log[i].insertedHash = NoNode THEN <<log[i].key, 0>>
        ELSE IF GetNode(db, root, log[i].insertedHash) = "ok"
        THEN <<log[i].key, log[i].insertedHash.val>>
        ELSE <<"ErrNodeNotFound", 0>>]

\* The entries the iterator streams for a path: the records' logs in path order.
RECURSIVE PathEntries(_, _, _)
PathEntries(db, version, path) ==
    IF path = <<>> THEN <<>>
    ELSE ReviveHashedDBWriteLog(db, Root(version, Head(path).new[1], Head(path).new[2]),
                                Head(path).log)
            \o PathEntries(db, version, Tail(path))

\* The search is breadth first: a path of fewest records is returned. Among paths of
\* equal length the order of the keys decides; logs holds each candidate's entries.
GetWriteLogHops(db, startRoot, endRoot, hops) ==
    IF db.discardWriteLogs THEN [err |-> "ErrWriteLogNotFound", logs |-> {}]
    ELSE IF ~Follows(endRoot, startRoot) THEN [err |-> "ErrRootMustFollowOld", logs |-> {}]
    ELSE IF endRoot.version < db.meta.earliestVersion
    THEN [err |-> "ErrWriteLogNotFound", logs |-> {}]
    ELSE LET paths == WriteLogPaths(db, endRoot.version, typedHashFromRoot(endRoot),
                                    typedHashFromRoot(startRoot), hops)
             shortest == {p \in paths : \A q \in paths : Len(p) <= Len(q)}
         IN  IF paths = {} THEN [err |-> "ErrWriteLogNotFound", logs |-> {}]
             ELSE [err |-> "ok", logs |-> {PathEntries(db, endRoot.version, p) : p \in shortest}]

\* A search that follows three hops.
GetWriteLogThreeHops(db, startRoot, endRoot) ==
    GetWriteLogHops(db, startRoot, endRoot, maxAllowedHops + 1)

GetWriteLog(db, startRoot, endRoot) ==
    GetWriteLogHops(db, startRoot, endRoot, maxAllowedHops)

(***************************************************************************)
(* Multipart restore.                                                      *)
(***************************************************************************)
cleanMultipartLocked(db, removeNodes) ==
    LET version == IF db.multipartVersion # multipartVersionNone
                   THEN db.multipartVersion ELSE db.meta.multipartVersion
    IN  IF version = multipartVersionNone THEN Result(db, "ok")
        ELSE Result([db EXCEPT
                        !.nodes = IF removeNodes
                                  THEN NodeDeleteAll(db.nodes, db.multipartLog, version)
                                  ELSE db.nodes,
                        !.multipartLog = {},
                        !.meta.multipartVersion = multipartVersionNone,
                        !.multipartVersion = multipartVersionNone], "ok")

\* A start that overwrites the marker of a running restore.
StartMultipartInsertOverwrite(db, version) ==
    IF version = multipartVersionNone THEN Result(db, "ErrInvalidMultipartVersion")
    ELSE Result([db EXCEPT !.meta.multipartVersion = version,
                           !.multipartVersion = version], "ok")

StartMultipartInsert(db, version) ==
    IF version = multipartVersionNone THEN Result(db, "ErrInvalidMultipartVersion")
    ELSE IF db.multipartVersion # multipartVersionNone
    THEN IF db.multipartVersion # version THEN Result(db, "ErrMultipartInProgress")
         ELSE Result(db, "ok")
    \* No read-only check: the store's backend refuses the write of the marker.
    ELSE IF db.readOnly THEN Result(db, "ErrReadOnlyTxn")
    ELSE Result([db EXCEPT !.meta.multipartVersion = version,
                           !.multipartVersion = version], "ok")

\* What an interrupted cleanup can leave in the store: the node deletions are flushed
\* first, then the deletions of the log entries, then the marker is cleared; a flush
\* that is cut short has written some of its keys.
cleanMultipartCrashStates(db, removeNodes) ==
    LET version == IF db.multipartVersion # multipartVersionNone
                   THEN db.multipartVersion ELSE db.meta.multipartVersion
        removed == IF removeNodes THEN db.multipartLog ELSE {}
    IN  IF version = multipartVersionNone THEN {}
        ELSE {[db EXCEPT !.nodes = NodeDeleteAll(@, some, version)] : some \in SUBSET removed}
             \cup {[db EXCEPT !.nodes = NodeDeleteAll(@, removed, version),
                              !.multipartLog = left] : left \in SUBSET db.multipartLog}

\* The process is gone: the store is closed and what was held in memory is lost.
Crashed(db) == [db EXCEPT !.closed = TRUE, !.multipartVersion = multipartVersionNone]

\* New on an existing store with the cleanup left out.
ReopenNoClean(db) == Result([db EXCEPT !.closed = FALSE], "ok")

\* New on an existing store: the metadata is loaded, then leftovers of a restore are
\* cleaned, with the logged nodes removed.
Reopen(db) == cleanMultipartLocked([db EXCEPT !.closed = FALSE], TRUE)

\* New with cfg.ReadOnly on an existing store: the handles that can exist. The
\* cleanup at open writes when a restore marker is stored, which a read-only
\* backend refuses, so a read-only handle exists only for a store without marker.
OpenReadOnly(db) ==
    IF db.meta.multipartVersion = multipartVersionNone /\ db.multipartVersion = multipartVersionNone
    THEN {[db EXCEPT !.readOnly = TRUE]}
    ELSE {}

\* An abort that discards the log without deleting the logged nodes.
AbortMultipartInsertKeepNodes(db) == cleanMultipartLocked(db, FALSE)

AbortMultipartInsert(db) == cleanMultipartLocked(db, TRUE)

(***************************************************************************)
(* Finalize.                                                               *)
(***************************************************************************)
\* Finalize is refused while a restore for another version is running.
FinalizeInvalidMultipart(db, version) ==
    db.multipartVersion # multipartVersionNone /\ db.multipartVersion # version

FinalizeNotFinalizedNoRestoreExemption(db, version) ==
    version > 0 /\ db.meta.lastFinalizedExists /\ db.meta.lastFinalizedVersion < version - 1

FinalizeNotFinalizedNoCheck(db, version) == FALSE

\* The previous version must have been finalized (if we are not restoring).
FinalizeNotFinalized(db, version) ==
    /\ db.multipartVersion = multipartVersionNone
    /\ version > 0
    /\ db.meta.lastFinalizedExists
    /\ db.meta.lastFinalizedVersion < version - 1

FinalizeAlreadyFinalizedNoCheck(db, version) == FALSE

\* A version at or before the last finalized one is not finalized again.
FinalizeAlreadyFinalized(db, version) ==
    db.meta.lastFinalizedExists /\ version <= db.meta.lastFinalizedVersion

RECURSIVE finalizedRootsClosure(_, _)
\* Finalization is transitive: a root one of whose derived roots is finalized is finalized.
finalizedRootsClosure(finalizedRoots, roots) ==
    LET next == finalizedRoots \cup
                {rh \in DOMAIN roots : \E i \in 1..Len(roots[rh]) : roots[rh][i] \in finalizedRoots}
    IN  IF next = finalizedRoots THEN finalizedRoots ELSE finalizedRootsClosure(next, roots)

finalizedRootsNoClosure(finalizedRoots, roots) == finalizedRoots

\* The set of finalized roots of a Finalize call with the given root arguments.
FinalizedRoots(db, roots) ==
    finalizedRootsClosure({typedHashFromRoot(roots[i]) : i \in 1..Len(roots)},
                          loadRootsMetadata(db, roots[1].version))

UpdatedOf(db, version, rh) == db.updatedNodes[<<version, rh>>]

\* Nodes that may have become lone: removals of finalized roots, inserts of the others.
maybeLoneNodes(db, version, finalizedRoots) ==
    LET rootsMeta == loadRootsMetadata(db, version)
    IN  UNION {{n[1] : n \in {u \in UpdatedOf(db, version, rh) :
                                  IF rh \in finalizedRoots THEN u[2] ELSE ~u[2]}} :
               rh \in DOMAIN rootsMeta}

notLoneNodesNone(db, version, finalizedRoots) == {}

\* Nodes inserted under a finalized root are never lone.
notLoneNodes(db, version, finalizedRoots) ==
    LET rootsMeta == loadRootsMetadata(db, version)
    IN  UNION {{n[1] : n \in {u \in UpdatedOf(db, version, rh) : ~u[2]}} :
               rh \in DOMAIN rootsMeta \cap finalizedRoots}

FinalizeKeepAllRoots(rootsMeta, finalizedRoots) == rootsMeta

\* The version's roots metadata after the non-finalized roots are deleted from it.
FinalizeRetainedRoots(rootsMeta, finalizedRoots) ==
    [rh \in DOMAIN rootsMeta \cap finalizedRoots |-> rootsMeta[rh]]

FinalizeKeepWriteLogs(db, version, finalizedRoots) == db.writeLogs

\* The write logs after those of the non-finalized roots of the version are removed.
FinalizeWriteLogs(db, version, finalizedRoots) ==
    IF db.discardWriteLogs THEN db.writeLogs
    ELSE {w \in db.writeLogs :
            ~(w.version = version /\ w.new \in DOMAIN loadRootsMetadata(db, version)
                                  /\ w.new \notin finalizedRoots)}

Finalize(db, roots) ==
    IF db.readOnly THEN Result(db, "ErrReadOnly")
    ELSE IF Len(roots) = 0 THEN Result(db, "ErrNoRoots")
    ELSE
    LET version == roots[1].version IN
    IF FinalizeInvalidMultipart(db, version) THEN Result(db, "ErrInvalidMultipartVersion")
    ELSE IF FinalizeNotFinalized(db, version) THEN Result(db, "ErrNotFinalized")
    ELSE IF FinalizeAlreadyFinalized(db, version) THEN Result(db, "ErrAlreadyFinalized")
    ELSE IF \E i \in 1..Len(roots) : roots[i].version # version
    THEN Result(db, "ErrVersionMismatch")
    ELSE
    LET rootsMeta == loadRootsMetadata(db, version)
        finalizedRoots == FinalizedRoots(db, roots)
    IN
    IF \E rh \in DOMAIN rootsMeta : <<version, rh>> \notin DOMAIN db.updatedNodes
    THEN Result(db, "panic")
    ELSE
    LET lone == maybeLoneNodes(db, version, finalizedRoots)
                    \ notLoneNodes(db, version, finalizedRoots)
        retained == FinalizeRetainedRoots(rootsMeta, finalizedRoots)
        finalized ==
            [db EXCEPT
                !.nodes = NodeDeleteAll(db.nodes, lone, version),
                !.writeLogs = FinalizeWriteLogs(db, version, finalizedRoots),
                !.updatedNodes = [k \in {x \in DOMAIN db.updatedNodes :
                                            ~(x[1] = version /\ x[2] \in DOMAIN rootsMeta)}
                                    |-> db.updatedNodes[k]],
                !.rootsMeta = IF DOMAIN retained # DOMAIN rootsMeta
                              THEN saveRootsMetadata(db.rootsMeta, version, retained)
                              ELSE db.rootsMeta,
                !.meta.lastFinalizedVersion = version,
                !.meta.lastFinalizedExists = TRUE]
    IN  IF db.multipartVersion # multipartVersionNone
        THEN cleanMultipartLocked(finalized, FALSE)
        ELSE Result(finalized, "ok")

(***************************************************************************)
(* Prune.                                                                  *)
(***************************************************************************)
\* Roots of the version with no derived roots.
maybeLoneRoots(db, version) ==
    LET rootsMeta == loadRootsMetadata(db, version)
    IN  {rh \in DOMAIN rootsMeta : Len(rootsMeta[rh]) = 0}

\* Nodes created in the pruned version that are reachable from one of its lone roots.
PrunedNodes(db, version) ==
    UNION {{typedHashFromParts(rh[1], n) : n \in {m \in TreeNodes(rh[2]) : m.ver = version}} :
           rh \in maybeLoneRoots(db, version)}

PruneNotFinalizedNoCheck(db, version) == FALSE

\* The version to prune must have been finalized.
PruneNotFinalized(db, version) ==
    ~db.meta.lastFinalizedExists \/ db.meta.lastFinalizedVersion < version

PruneNotEarliestNoCheck(db, version) == FALSE

\* The version to prune must be the earliest version.
PruneNotEarliest(db, version) == version # db.meta.earliestVersion

Prune(db, version) ==
    IF db.readOnly THEN Result(db, "ErrReadOnly")
    ELSE IF db.multipartVersion # multipartVersionNone THEN Result(db, "ErrMultipartInProgress")
    ELSE IF PruneNotFinalized(db, version) THEN Result(db, "ErrNotFinalized")
    ELSE IF PruneNotEarliest(db, version) THEN Result(db, "ErrNotEarliest")
    ELSE IF \E rh \in maybeLoneRoots(db, version) :
                Visit(db, Root(version, rh[1], rh[2])) # "ok"
    THEN Result(db, "ErrNodeNotFound")
    ELSE Result([db EXCEPT
                    !.nodes = NodeDeleteAll(db.nodes, PrunedNodes(db, version), version),
                    !.rootsMeta = [v \in DOMAIN db.rootsMeta \ {version} |-> db.rootsMeta[v]],
                    !.writeLogs = IF db.discardWriteLogs THEN db.writeLogs
                                  ELSE {w \in db.writeLogs : w.version # version},
                    !.meta.earliestVersion = version + 1], "ok")

(***************************************************************************)
(* Batches.                                                                *)
(***************************************************************************)
NoBatch == [open |-> FALSE]

\* A NewBatch that does not compare the chunk flag with the multipart state.
NewBatchAnyChunk(db, oldRoot, version, chunk) ==
    IF db.readOnly THEN [err |-> "ErrReadOnly", batch |-> NoBatch]
    ELSE IF db.multipartVersion # multipartVersionNone /\ db.multipartVersion # version
    THEN [err |-> "ErrInvalidMultipartVersion", batch |-> NoBatch]
    ELSE [err |-> "ok",
          batch |-> [ open           |-> TRUE,
                      oldRoot        |-> oldRoot,
                      version        |-> version,
                      chunk          |-> chunk,
                      multipartNodes |-> db.multipartVersion # multipartVersionNone,
                      bat            |-> {},
                      logEntries     |-> {},
                      updatedNodes   |-> {},
                      writeLogSet    |-> FALSE,
                      writeLog       |-> <<>>,
                      annotations    |-> <<>> ]]

NewBatch(db, oldRoot, version, chunk) ==
    IF db.readOnly THEN [err |-> "ErrReadOnly", batch |-> NoBatch]
    ELSE IF db.multipartVersion # multipartVersionNone /\ db.multipartVersion # version
    THEN [err |-> "ErrInvalidMultipartVersion", batch |-> NoBatch]
    ELSE IF chunk # (db.multipartVersion # multipartVersionNone)
    THEN [err |-> "ErrMultipartInProgress", batch |-> NoBatch]
    ELSE [err |-> "ok",
          batch |-> [ open           |-> TRUE,
                      oldRoot        |-> oldRoot,
                      version        |-> version,
                      chunk          |-> chunk,
                      multipartNodes |-> db.multipartVersion # multipartVersionNone,
                      bat            |-> {},
                      logEntries     |-> {},
                      updatedNodes   |-> {},
                      writeLogSet    |-> FALSE,
                      writeLog       |-> <<>>,
                      annotations    |-> <<>> ]]

\* badgerSubtree.PutNode for each of the given node hashes.
PutNodes(db, ba, hashes) ==
    LET ths == {typedHashFromParts(ba.oldRoot.type, h) : h \in hashes}
    IN  [ba EXCEPT
            !.updatedNodes = @ \cup {<<th, FALSE>> : th \in ths},
            !.logEntries = IF ba.multipartNodes
                           THEN @ \cup {th \in ths : ~NodeVisible(db.nodes, th, ba.version)}
                           ELSE @,
            !.bat = @ \cup ths]

RemoveNodes(ba, hashes) ==
    IF ba.chunk THEN ba
    ELSE [ba EXCEPT !.updatedNodes =
                @ \cup {<<typedHashFromParts(ba.oldRoot.type, h), TRUE>> : h \in hashes}]

PutWriteLog(db, ba, writeLog, annotations) ==
    IF ba.chunk \/ db.discardWriteLogs THEN ba
    ELSE [ba EXCEPT !.writeLogSet = TRUE, !.writeLog = writeLog, !.annotations = annotations]

\* api.MakeHashedDBWriteLog: each entry keeps its key and the hash of the leaf it
\* inserted, NoNode for a removal.
MakeHashedDBWriteLog(writeLog, annotations) ==
    [i \in 1..Len(writeLog) |-> [key |-> writeLog[i][1], insertedHash |-> annotations[i]]]

CommitResult(db, err, applied) == [db |-> db, err |-> err, applied |-> applied]

CommitAlreadyFinalizedNoCheck(db, root) == FALSE

\* A version that has been finalized takes no more commits.
CommitAlreadyFinalized(db, root) ==
    db.meta.lastFinalizedExists /\ db.meta.lastFinalizedVersion >= root.version

\* The roots metadata after the new root is linked below the batch's old root.
CommitLinkOldRoot(rootsMeta, ba, root) ==
    LET rootHash == typedHashFromRoot(root)
        oldRootHash == typedHashFromRoot(ba.oldRoot)
        old == rootsMeta[ba.oldRoot.version]
    IN  saveRootsMetadata(rootsMeta, ba.oldRoot.version,
                          [old EXCEPT ![oldRootHash] = Append(@, rootHash)])

Commit(db, ba, root) ==
    IF db.multipartVersion # multipartVersionNone /\ db.multipartVersion # root.version
    THEN CommitResult(db, "ErrInvalidMultipartVersion", FALSE)
    ELSE IF ~Follows(root, ba.oldRoot) THEN CommitResult(db, "ErrRootMustFollowOld", FALSE)
    ELSE IF CommitAlreadyFinalized(db, root) THEN CommitResult(db, "ErrAlreadyFinalized", FALSE)
    ELSE
    LET rootHash == typedHashFromRoot(root)
        oldRootHash == typedHashFromRoot(ba.oldRoot)
        rootsMeta == loadRootsMetadata(db, root.version)
        exists == rootHash \in DOMAIN rootsMeta
        \* Create the root with no derived roots when it is new.
        created == IF exists THEN db.rootsMeta
                   ELSE saveRootsMetadata(db.rootsMeta, root.version,
                            [rh \in DOMAIN rootsMeta \cup {rootHash} |->
                                IF rh = rootHash THEN <<>> ELSE rootsMeta[rh]])
        key == <<root.version, rootHash>>
        flushed == [db EXCEPT
                       !.multipartLog = IF ba.multipartNodes THEN @ \cup ba.logEntries ELSE @,
                       !.nodes = NodeSetAll(@, ba.bat, ba.version)]
    IN
    IF exists /\ ~ba.chunk THEN CommitResult(db, "ok", FALSE)
    ELSE IF ba.chunk
    THEN CommitResult([flushed EXCEPT
                          !.rootsMeta = created,
                          !.updatedNodes = [k \in DOMAIN @ \cup {key} |->
                                               IF k = key THEN {} ELSE @[k]]], "ok", TRUE)
    ELSE IF /\ ba.oldRoot.hash # EmptyHash
            /\ ba.oldRoot.version < db.meta.earliestVersion
            /\ ba.oldRoot.version # root.version
    THEN CommitResult(db, "ErrPreviousVersionMismatch", FALSE)
    ELSE IF /\ ba.oldRoot.hash # EmptyHash
            /\ (\/ ba.oldRoot.version \notin DOMAIN created
                \/ oldRootHash \notin DOMAIN created[ba.oldRoot.version])
    THEN CommitResult(db, "ErrRootNotFound", FALSE)
    ELSE CommitResult([flushed EXCEPT
                          !.rootsMeta = IF ba.oldRoot.hash # EmptyHash
                                        THEN CommitLinkOldRoot(created, ba, root)
                                        ELSE created,
                          !.updatedNodes = [k \in DOMAIN @ \cup {key} |->
                                               IF k = key THEN ba.updatedNodes ELSE @[k]],
                          !.writeLogs = IF ba.writeLogSet
                                        THEN {w \in @ : ~(w.version = root.version
                                                          /\ w.new = rootHash
                                                          /\ w.old = oldRootHash)}
                                             \cup {[version |-> root.version, new |-> rootHash,
                                                    old |-> oldRootHash,
                                                    log |-> MakeHashedDBWriteLog(
                                                                ba.writeLog, ba.annotations)]}
                                        ELSE @], "ok", TRUE)

\* What an interrupted commit of a chunk batch can leave in the store: the log batch is
\* flushed first, then the node batch, and the roots metadata is committed last.
ChunkCommitCrashStates(db, ba, root) ==
    IF ~Commit(db, ba, root).applied THEN {}
    ELSE LET logged == IF ba.multipartNodes THEN ba.logEntries ELSE {}
         IN  {[db EXCEPT !.multipartLog = @ \cup some] : some \in SUBSET logged}
             \cup {[db EXCEPT !.multipartLog = @ \cup logged,
                              !.nodes = NodeSetAll(@, some, ba.version)] :
                        some \in SUBSET ba.bat}

\* An interrupted commit that had committed the roots metadata before it flushed the
\* nodes.
CommitCrashStatesMetadataFirst(db, ba, root) ==
    IF ~Commit(db, ba, root).applied THEN {}
    ELSE {[db EXCEPT !.rootsMeta = Commit(db, ba, root).db.rootsMeta,
                     !.updatedNodes = Commit(db, ba, root).db.updatedNodes,
                     !.nodes = NodeSetAll(@, some, ba.version)] : some \in SUBSET ba.bat}

\* What an interrupted commit of any batch can leave in the store: as for a chunk batch,
\* and the write log of a tree commit is one more key of the node batch.
CommitCrashStates(db, ba, root) ==
    ChunkCommitCrashStates(db, ba, root)
        \cup {[left EXCEPT !.writeLogs = Commit(db, ba, root).db.writeLogs] :
                    left \in {l \in ChunkCommitCrashStates(db, ba, root) :
                                    l.multipartLog = Commit(db, ba, root).db.multipartLog}}

\* The outcome of a Finalize and a Commit that ran one after the other.
Outcome(db, finalizeErr, commitErr) ==
    [db |-> db, finalizeErr |-> finalizeErr, commitErr |-> commitErr]

\* A Finalize and a Commit that overlap without a lock: the Finalize writes the roots
\* metadata it computed from what it read before the Commit.
UnlockedOverlap(db, roots, ba, root) ==
    {Outcome([Commit(db, ba, root).db EXCEPT !.rootsMeta = Finalize(db, roots).db.rootsMeta,
                                             !.meta = Finalize(db, roots).db.meta],
             Finalize(db, roots).err, Commit(db, ba, root).err)}

\* A Finalize and a Commit that overlap: each holds metaUpdateLock from its first read
\* of the metadata to its return, so one runs after the other, in either order.
LockedOverlap(db, roots, ba, root) ==
    { Outcome(Commit(Finalize(db, roots).db, ba, root).db,
              Finalize(db, roots).err, Commit(Finalize(db, roots).db, ba, root).err),
      Outcome(Finalize(Commit(db, ba, root).db, roots).db,
              Finalize(Commit(db, ba, root).db, roots).err, Commit(db, ba, root).err) }

\* The tree's commit into a batch: the nodes new to the tree are put, the nodes of the
\* old tree that are gone are removed, and the write log is attached.
FillBatch(db, ba, newHash, writeLog) ==
    LET new == TreeNodes(newHash)
        old == TreeNodes(ba.oldRoot.hash)
    IN  PutWriteLog(db, RemoveNodes(PutNodes(db, ba, new \ old), old \ new), writeLog,
                    Annotations(TreeKids(ba.oldRoot.hash), writeLog, ba.version))

\* mkvs tree commit in one step: NewBatch, the tree's puts and removals, Commit.
TreeCommit(db, oldRoot, version, wl) ==
    LET nb == NewBatch(db, oldRoot, version, FALSE)
        newHash == ApplyWriteLog(oldRoot.hash, wl, version)
        root == Root(version, oldRoot.type, newHash)
        ba == FillBatch(db, nb.batch, newHash, wl)
    IN  IF nb.err # "ok"
        THEN [db |-> db, err |-> nb.err, applied |-> FALSE, root |-> root, bat |-> {}]
        ELSE LET r == Commit(db, ba, root)
             IN  [db |-> r.db, err |-> r.err, applied |-> r.applied,
                  root |-> root, bat |-> ba.bat]

\* Checkpoint restorer importing one chunk: NewBatch in chunk mode, the puts, Commit.
RestoreChunk(db, version, type, target) ==
    LET nb == NewBatch(db, Root(version, type, EmptyHash), version, TRUE)
        root == Root(version, type, target)
        ba == PutNodes(db, nb.batch, TreeNodes(target))
    IN  IF nb.err # "ok" THEN [db |-> db, err |-> nb.err, applied |-> FALSE, bat |-> {}]
        ELSE LET r == Commit(db, ba, root)
             IN  [db |-> r.db, err |-> r.err, applied |-> r.applied, bat |-> ba.bat]

(***************************************************************************)
(* Storage committee worker: constants, the runtime's chain, records.      *)
(***************************************************************************)
\* Highest round of the runtime's chain.
MaxRound == 2
\* Most faults the environment injects: failed or wrong GetDiff answers, failed finalizes.
MaxFaults == 1

\* ^uint64(0).  Rounds are uint64; the model keeps the wrap-around at this value.
defaultUndefinedRound == 2147483647

\* round + 1 and round - 1 in unsigned arithmetic.
Inc(round) == IF round = defaultUndefinedRound THEN 0 ELSE round + 1

Dec(round) == IF round = 0 THEN defaultUndefinedRound ELSE round - 1

\* outstandingMask: the set of root types whose bit is set.
maskNone == {}

maskIO == {"io"}

maskState == {"state"}

maskAll == maskIO \cup maskState

\* Rounds the genesis block of the runtime can have.
GenesisRounds == {0, 1}

\* The genesis state of the runtime descriptor, a write log.
GenesisState == <<<<"k1", 1>>>>

\* The state write log the runtime produced in the round.
StateLog(round) ==
    IF round % 3 = 1 THEN <<<<"k2", 1>>>>
    ELSE IF round % 3 = 2 THEN <<>>
    ELSE <<<<"k1", 0>>>>

\* The I/O write log the runtime produced in the round; I/O roots are not chained.
IOLog(round) == IF round % 2 = 0 THEN <<<<"k1", 1>>>> ELSE <<>>

RECURSIVE StateHash(_, _)
StateHash(genesis, round) ==
    IF round <= genesis THEN ApplyWriteLog(EmptyHash, GenesisState, genesis)
    ELSE ApplyWriteLog(StateHash(genesis, round - 1), StateLog(round), round)

IOHash(round) == ApplyWriteLog(EmptyHash, IOLog(round), round)

\* The block header of the round: what consensus delivers and History().GetBlock returns.
Block(genesis, round) ==
    [round |-> round, ioRoot |-> IOHash(round), stateRoot |-> StateHash(genesis, round)]

summaryFromBlock(blk) ==
    [ round     |-> blk.round,
      ioRoot    |-> Root(blk.round, "io", blk.ioRoot),
      stateRoot |-> Root(blk.round, "state", blk.stateRoot) ]

\* The dummy summary cached for the undefined round: empty roots of the following round.
dummySummary(round) ==
    [ round     |-> Inc(round),
      ioRoot    |-> Root(Inc(round), "io", EmptyHash),
      stateRoot |-> Root(Inc(round), "state", EmptyHash) ]

\* History: no fetch has failed since the last diff was applied.
NoRetry == [round |-> defaultUndefinedRound, fetchMask |-> maskNone, fails |-> 0]

\* History: the fetch of the round and root type failed once more; the count stops at two.
Failed(retry, item) ==
    [ round |-> item.round, fetchMask |-> item.fetchMask,
      fails |-> IF retry.round = item.round /\ retry.fetchMask = item.fetchMask
                THEN (IF retry.fails < 2 THEN retry.fails + 1 ELSE 2) ELSE 1 ]

\* The zero value of blockSummary with the round NewNode sets.
NoSummary ==
    [ round     |-> defaultUndefinedRound,
      ioRoot    |-> Root(0, "", EmptyHash),
      stateRoot |-> Root(0, "", EmptyHash) ]

RECURSIVE DiffFrom(_, _, _)
DiffFrom(old, new, i) ==
    IF i > Len(KeySeq) THEN <<>>
    ELSE (IF old[i] = new[i] THEN <<>> ELSE <<<<KeySeq[i], new[i][1]>>>>)
            \o DiffFrom(old, new, i + 1)

\* The write log a remote node that holds both trees returns for GetDiff.
GetDiff(prevRoot, thisRoot) == DiffFrom(TreeKids(prevRoot.hash), TreeKids(thisRoot.hash), 1)

\* A write log that does not lead from prevRoot to thisRoot.
WrongDiff(prevRoot, thisRoot) ==
    IF GetDiff(prevRoot, thisRoot) = <<>> THEN <<<<"k1", 1>>>> ELSE <<>>

\* localStorage.Apply: the write log is applied on the source root and committed as the
\* destination root, unless that root exists; a different resulting root is an error.
Apply(db, srcRoot, dstRoot, writeLog) ==
    IF ~Follows(dstRoot, srcRoot) THEN Result(db, "ErrRootMustFollowOld")
    ELSE IF HasRoot(db, dstRoot) THEN Result(db, "ok")
    ELSE IF ApplyWriteLog(srcRoot.hash, writeLog, dstRoot.version) # dstRoot.hash
    THEN Result(db, "ErrExpectedRootMismatch")
    ELSE LET r == TreeCommit(db, srcRoot, dstRoot.version, writeLog)
         IN  Result(r.db, r.err)

\* initGenesis: the genesis state is applied on the empty root at the genesis round.
initGenesis(db, genesis) ==
    Apply(db, Root(genesis, "state", EmptyHash),
          Root(genesis, "state", StateHash(genesis, genesis)), GenesisState)

\* A fetchDiff that does not look for the root in the store first.
fetchDiffAlwaysFetches(db, task, answer) ==
    [ fetchMask |-> task.fetchMask, fetched |-> TRUE,
      err |-> IF answer = "err" THEN "GetDiff failed" ELSE "",
      round |-> task.round, prevRoot |-> task.prevRoot, thisRoot |-> task.thisRoot,
      writeLog |-> IF answer = "ok" THEN GetDiff(task.prevRoot, task.thisRoot)
                   ELSE WrongDiff(task.prevRoot, task.thisRoot) ]

\* fetchDiff up to its deferred send: the result for the given answer of the remote.
fetchDiff(db, task, answer) ==
    LET result == [ fetchMask |-> task.fetchMask, fetched |-> FALSE, err |-> "",
                    round |-> task.round, prevRoot |-> task.prevRoot,
                    thisRoot |-> task.thisRoot, writeLog |-> <<>> ]
    IN  IF HasRoot(db, task.thisRoot) THEN result
        ELSE IF task.thisRoot.hash = task.prevRoot.hash THEN [result EXCEPT !.fetched = TRUE]
        ELSE IF answer = "err" THEN [result EXCEPT !.fetched = TRUE, !.err = "GetDiff failed"]
        ELSE IF answer = "wrong"
        THEN [result EXCEPT !.fetched = TRUE,
                            !.writeLog = WrongDiff(task.prevRoot, task.thisRoot)]
        ELSE [result EXCEPT !.fetched = TRUE,
                            !.writeLog = GetDiff(task.prevRoot, task.thisRoot)]

\* Whether fetchDiff asks the remote at all.
CallsRemote(db, task) ==
    ~HasRoot(db, task.thisRoot) /\ task.thisRoot.hash # task.prevRoot.hash

\* The smallest round among the items of an outOfOrderRoundQueue.
MinRound(queue) == CHOOSE r \in {q.round : q \in queue} : \A q \in queue : r <= q.round

DiffIsAny(lastFullyAppliedRound, round) == TRUE

\* A pending diff is applied only for the round after the last fully applied one.
DiffIsNext(lastFullyAppliedRound, round) == Inc(lastFullyAppliedRound) = round

FinalizeIsAny(cachedLastRound, round) == TRUE

\* An applied round is finalized only if it is the round after the last finalized one.
FinalizeIsNext(cachedLastRound, round) == Inc(cachedLastRound) = round

\* The cached last round of a starting worker: undefined for no or a pre-genesis cursor.
StartRound(cursorRound, genesis) ==
    IF cursorRound = defaultUndefinedRound \/ cursorRound < genesis
    THEN Dec(genesis) ELSE cursorRound

\* One root of the checkpoint is imported unless an earlier step failed or the tree is empty.
RestoreRoot(r, version, root) ==
    IF r.err # "ok" \/ root.hash = EmptyHash THEN r
    ELSE LET chunk == RestoreChunk(r.db, version, root.type, root.hash)
         IN  Result(chunk.db, chunk.err)

\* The restore is closed by finalizing both roots unless an earlier step failed.
RestoreFinalize(r, summary) ==
    IF r.err # "ok" THEN r ELSE Finalize(r.db, <<summary.ioRoot, summary.stateRoot>>)

\* The summary of the outcome: a failure after the start aborts the multipart insert.
RestoreOutcome(db, started, restored, summary) ==
    IF started.err # "ok" THEN [db |-> db, err |-> started.err, summary |-> summary]
    ELSE IF restored.err # "ok"
    THEN [db |-> AbortMultipartInsert(restored.db).db, err |-> "restore failed",
          summary |-> summary]
    ELSE [db |-> restored.db, err |-> "ok", summary |-> summary]

\* syncCheckpoints: the checkpoint of the round is restored as a multipart insert of its
\* I/O and state trees and closed by finalizing both roots; any failure aborts.
syncCheckpoints(db, genesis, round) ==
    LET summary == summaryFromBlock(Block(genesis, round))
        started == StartMultipartInsert(db, round)
    IN  RestoreOutcome(db, started,
            RestoreFinalize(
                RestoreRoot(RestoreRoot(started, round, summary.ioRoot),
                            round, summary.stateRoot),
                summary),
            summary)

(***************************************************************************)
(* State.                                                                  *)
(***************************************************************************)
VARIABLES
    ndb,        \* the node database (badgerNodeDB and what it persists)
    batch,      \* the batch opened by NewBatch and not yet committed
    hist,       \* history: what batches inserted, which versions took chunks
    env,        \* the runtime's chain as consensus has delivered it
    node,       \* the fields of the worker's Node, its persisted cursor included
    loop,       \* the locals of Node.worker and its position
    tasks,      \* fetchDiff and finalize goroutines in flight
    wlog,       \* history: what the worker applied, dispatched, flushed and notified
    watch,      \* the roothash client's block notifier and one WatchBlocks subscriber
    codec       \* a trie node in memory, its encoding, and what is decoded and extracted

wvars == <<env, node, loop, tasks, wlog, watch, codec>>

vars == <<ndb, batch, hist, env, node, loop, tasks, wlog, watch, codec>>

\* No trie node in memory.
CodecOff == [pc |-> "idle"]

\* No block processed, nobody subscribed.
WatchOff ==
    [ lastBlock |-> <<>>, broadcast |-> <<>>, subscribed |-> FALSE, ch |-> <<>>,
      lastRound |-> invalidRound, emitted |-> <<>>, dropped |-> <<>> ]

HistInit ==
    [ commits |-> 0, puts |-> {}, chunked |-> {},
      crashes |-> 0, crashedIn |-> {}, crashVersion |-> multipartVersionNone,
      logged |-> {}, written |-> {} ]

(***************************************************************************)
(* Inputs of the node database specification.                              *)
(***************************************************************************)
WriteLogEntries == {<<k, v>> : k \in Keys, v \in {0} \cup Vals}

\* Sequences of write-log entries <<key, value>> up to the given length; value 0 removes.
RECURSIVE WriteLogsUpTo(_)
WriteLogsUpTo(n) ==
    IF n = 0 THEN {<<>>}
    ELSE WriteLogsUpTo(n - 1) \cup
         {Append(wl, e) : wl \in {w \in WriteLogsUpTo(n - 1) : Len(w) = n - 1},
                          e \in WriteLogEntries}

\* The write logs of the committed batches: empty, or one insert or removal.
WriteLogInputs == WriteLogsUpTo(1)

\* Root types the node database specification commits roots of.
NdbRootTypes == {"state"}

RegisteredRoots(db, version) ==
    {Root(version, rh[1], rh[2]) : rh \in DOMAIN loadRootsMetadata(db, version)}

\* Roots a tree can be opened on to commit into the version.
OldRootInputs(db, version) ==
    {Root(version, t, EmptyHash) : t \in NdbRootTypes}
        \cup RegisteredRoots(db, version)
        \cup (IF version > 0 THEN RegisteredRoots(db, version - 1) ELSE {})

\* Write logs that build the trees a checkpoint can hold: one key, or both keys.
CheckpointWriteLogs ==
    {<<<<k, v>>>> : k \in Keys, v \in Vals} \cup
    {<<<<KeySeq[1], v>>, <<KeySeq[2], v>>>> : v \in Vals}

\* Trees a checkpoint restored at the version can hold.
CheckpointInputs(version) ==
    {ApplyWriteLog(EmptyHash, wl, version) : wl \in CheckpointWriteLogs}

(***************************************************************************)
(* Node database actions.                                                  *)
(***************************************************************************)
NdbNewBatch ==
    /\ ~batch.open
    /\ hist.commits < MaxBatchCommits
    /\ \E version \in Versions, chunk \in BOOLEAN :
        \E oldRoot \in OldRootInputs(ndb, version) :
            LET r == NewBatch(ndb, oldRoot, version, chunk)
            IN  /\ chunk => oldRoot.hash = EmptyHash /\ oldRoot.version = version
                /\ batch' = r.batch
    /\ UNCHANGED <<ndb, hist>>
    /\ UNCHANGED wvars

\* A tree commit: the write log is applied to the old root and the batch is committed.
NdbCommit ==
    /\ batch.open /\ ~batch.chunk
    /\ \E wl \in WriteLogInputs :
        LET newHash == ApplyWriteLog(batch.oldRoot.hash, wl, batch.version)
            root == Root(batch.version, batch.oldRoot.type, newHash)
            ba == FillBatch(ndb, batch, newHash, wl)
            r == Commit(ndb, ba, root)
        IN  /\ ndb' = r.db
            /\ hist' = IF r.applied
                       THEN [hist EXCEPT !.commits = @ + 1, !.puts = @ \cup
                                {<<root.version, typedHashFromRoot(root), th>> : th \in ba.bat}]
                       ELSE hist
    /\ batch' = NoBatch
    /\ UNCHANGED wvars

\* A checkpoint chunk: nodes of the restored tree are put and the batch is committed.
NdbCommitChunk ==
    /\ batch.open /\ batch.chunk
    /\ \E target \in CheckpointInputs(batch.version) :
        LET root == Root(batch.version, batch.oldRoot.type, target)
            ba == PutNodes(ndb, batch, TreeNodes(target))
            r == Commit(ndb, ba, root)
        IN  /\ ndb' = r.db
            /\ hist' = IF r.applied
                       THEN [hist EXCEPT !.commits = @ + 1, !.chunked = @ \cup {root.version},
                                !.puts = @ \cup
                                    {<<root.version, typedHashFromRoot(root), th>> : th \in ba.bat}]
                       ELSE hist
    /\ batch' = NoBatch
    /\ UNCHANGED wvars

\* Sequences of one or two distinct roots to finalize.
FinalizeInputs(db, version) ==
    LET cands == RegisteredRoots(db, version)
                    \cup {Root(version, t, EmptyHash) : t \in NdbRootTypes}
    IN  {<<r>> : r \in cands} \cup
        {LET r1 == CHOOSE r \in pair : TRUE
             r2 == CHOOSE r \in pair : r # r1
         IN  <<r1, r2>> : pair \in {p \in SUBSET cands : Cardinality(p) = 2}}

NdbFinalize ==
    /\ \E version \in Versions :
        \E roots \in FinalizeInputs(ndb, version) :
            LET r == Finalize(ndb, roots)
            IN  ndb' = r.db
    /\ UNCHANGED <<batch, hist>>
    /\ UNCHANGED wvars

NdbPrune ==
    /\ \E version \in Versions :
        LET r == Prune(ndb, version)
        IN  ndb' = r.db
    /\ UNCHANGED <<batch, hist>>
    /\ UNCHANGED wvars

NdbStartMultipartInsert ==
    /\ \E version \in Versions :
        LET r == StartMultipartInsert(ndb, version)
        IN  ndb' = r.db
    /\ UNCHANGED <<batch, hist>>
    /\ UNCHANGED wvars

NdbAbortMultipartInsert ==
    /\ ndb' = AbortMultipartInsert(ndb).db
    /\ UNCHANGED <<batch, hist>>
    /\ UNCHANGED wvars

NdbApply ==
    /\ ~batch.open
    /\ hist.commits < MaxCommits
    /\ \E version \in Versions :
        \E oldRoot \in OldRootInputs(ndb, version), wl \in WriteLogInputs :
            LET r == TreeCommit(ndb, oldRoot, version, wl)
            IN  /\ ndb' = r.db
                /\ hist' = IF r.applied
                           THEN [hist EXCEPT !.commits = @ + 1, !.puts = @ \cup
                                    {<<version, typedHashFromRoot(r.root), th>> : th \in r.bat}]
                           ELSE hist
    /\ UNCHANGED batch
    /\ UNCHANGED wvars

NdbRestoreChunk ==
    /\ ~batch.open
    /\ hist.commits < MaxCommits
    /\ \E version \in Versions, type \in NdbRootTypes :
        \E target \in CheckpointInputs(version) :
            LET r == RestoreChunk(ndb, version, type, target)
            IN  /\ ndb' = r.db
                /\ hist' = IF r.applied
                           THEN [hist EXCEPT !.commits = @ + 1, !.chunked = @ \cup {version},
                                    !.puts = @ \cup
                                        {<<version, typedHashFromParts(type, target), th>> :
                                            th \in r.bat}]
                           ELSE hist
    /\ UNCHANGED batch
    /\ UNCHANGED wvars

\* The worker is not started in the node database specification.
WorkerOff ==
    /\ env = [genesis |-> 0, delivered |-> defaultUndefinedRound]
    /\ node = [ syncedState |-> NoSummary, stateStore |-> [exists |-> FALSE, lastBlock |-> NoSummary],
                undefinedRound |-> 0, checkpointSyncDisabled |-> TRUE, ctxDone |-> FALSE,
                blockCh |-> <<>>, quitCh |-> "open", initCh |-> "open" ]
    /\ loop = [ pc |-> "off", cachedLastRound |-> 0, lastFullyAppliedRound |-> 0,
                outOfOrderDiffs |-> {}, outOfOrderApplieds |-> {},
                syncingRounds |-> <<>>, hashCache |-> <<>> ]
    /\ tasks = [queued |-> {}, sending |-> {}, finalizing |-> {}, finalized |-> {}]
    /\ wlog = [ applied |-> <<>>, dispatched |-> <<>>, flushed |-> <<>>, notified |-> <<>>,
                faults |-> 0, heldBack |-> FALSE, startRound |-> 0,
                track |-> FALSE, retry |-> NoRetry, skipped |-> {},
                crashCursor |-> defaultUndefinedRound,
                crashFinalized |-> defaultUndefinedRound ]
    /\ watch = WatchOff
    /\ codec = CodecOff

NdbInit ==
    /\ ndb = NewDB(FALSE, FALSE)
    /\ batch = NoBatch
    /\ hist = HistInit
    /\ WorkerOff

NdbNext ==
    \/ NdbApply
    \/ NdbRestoreChunk
    \/ NdbFinalize
    \/ NdbPrune
    \/ NdbStartMultipartInsert
    \/ NdbAbortMultipartInsert

SpecNDB == NdbInit /\ [][NdbNext]_vars

\* The node database with batches left open between NewBatch and Commit.
NdbBatchNext ==
    \/ NdbNewBatch
    \/ NdbCommit
    \/ NdbCommitChunk
    \/ NdbFinalize
    \/ NdbPrune
    \/ NdbStartMultipartInsert
    \/ NdbAbortMultipartInsert

SpecNDBBatch == NdbInit /\ [][NdbBatchNext]_vars

(***************************************************************************)
(* Node database: crashes and reopening.                                   *)
(***************************************************************************)
\* The history of a crash that leaves the store as after: the restore's version, the
\* nodes its log has named and those of them that were in the store. A crash of the
\* cleanup at open adds to the history of the crash before it.
CrashHist(h, step, before, after) ==
    LET version == after.meta.multipartVersion
        logged == (IF before.closed THEN h.logged ELSE {})
                    \cup before.multipartLog \cup after.multipartLog
    IN  [h EXCEPT !.crashes = @ + 1,
                  !.crashedIn = (IF before.closed THEN @ ELSE {}) \cup {step},
                  !.crashVersion = version,
                  !.logged = IF version = multipartVersionNone THEN {} ELSE logged,
                  !.written = IF version = multipartVersionNone THEN {}
                              ELSE (IF before.closed THEN @ ELSE {}) \cup
                                   {th \in logged : \/ NodeVisible(before.nodes, th, version)
                                                    \/ NodeVisible(after.nodes, th, version)}]

\* The process dies between two operations of a restore.
NdbCrash ==
    /\ ~ndb.closed
    /\ hist.crashes < MaxCrashes
    /\ ndb.meta.multipartVersion # multipartVersionNone
    /\ ndb' = Crashed(ndb)
    /\ hist' = CrashHist(hist, "idle", ndb, ndb)
    /\ UNCHANGED batch
    /\ UNCHANGED wvars

\* The process dies in the commit of a chunk batch.
NdbCrashInChunk ==
    /\ ~ndb.closed
    /\ hist.crashes < MaxCrashes
    /\ hist.commits < MaxCrashCommits
    /\ \E version \in Versions, type \in NdbRootTypes :
        \E target \in CheckpointInputs(version) :
            LET nb == NewBatch(ndb, Root(version, type, EmptyHash), version, TRUE)
            IN  /\ nb.err = "ok"
                /\ \E left \in ChunkCommitCrashStates(ndb,
                                    PutNodes(ndb, nb.batch, TreeNodes(target)),
                                    Root(version, type, target)) :
                        /\ ndb' = Crashed(left)
                        /\ hist' = [CrashHist(hist, "chunk", ndb, left)
                                        EXCEPT !.commits = @ + 1]
    /\ UNCHANGED batch
    /\ UNCHANGED wvars

\* The process dies in the cleanup of AbortMultipartInsert.
NdbCrashInAbort ==
    /\ ~ndb.closed
    /\ hist.crashes < MaxCrashes
    /\ \E left \in cleanMultipartCrashStates(ndb, TRUE) :
        /\ ndb' = Crashed(left)
        /\ hist' = CrashHist(hist, "abort", ndb, left)
    /\ UNCHANGED batch
    /\ UNCHANGED wvars

\* The process dies in the cleanup that New runs on the store it opened.
NdbCrashInReopen ==
    /\ ndb.closed
    /\ hist.crashes < MaxCrashes
    /\ \E left \in cleanMultipartCrashStates(ndb, TRUE) :
        /\ ndb' = Crashed(left)
        /\ hist' = CrashHist(hist, "reopen", ndb, left)
    /\ UNCHANGED batch
    /\ UNCHANGED wvars

\* New opens the store again. The history of the crash is dropped when operations go
\* on and kept after the last crash.
NdbReopen ==
    /\ ndb.closed
    /\ ndb' = Reopen(ndb).db
    /\ hist' = IF hist.crashes < MaxCrashes
               THEN [hist EXCEPT !.crashedIn = {}, !.crashVersion = multipartVersionNone,
                                 !.logged = {}, !.written = {}]
               ELSE hist
    /\ UNCHANGED batch
    /\ UNCHANGED wvars

\* An operation on the open store, as long as a crash can still follow.
NdbOperation ==
    /\ ~ndb.closed
    /\ hist.crashes < MaxCrashes
    /\ NdbNext
    /\ hist'.commits <= MaxCrashCommits

NdbCrashNext ==
    \/ NdbOperation
    \/ NdbCrash
    \/ NdbCrashInChunk
    \/ NdbCrashInAbort
    \/ NdbCrashInReopen
    \/ NdbReopen

SpecNDBCrash == NdbInit /\ [][NdbCrashNext]_vars

(***************************************************************************)
(* Storage committee worker: actions.                                      *)
(***************************************************************************)
\* A fresh node: NewNode finds no persisted cursor and leaves the round undefined.
\* track tells whether the history of failed fetches and skipped blocks is recorded.
NewNode(track) ==
    /\ ndb = NewDB(FALSE, FALSE)
    /\ batch = NoBatch
    /\ hist = HistInit
    /\ \E genesis \in GenesisRounds :
        env = [genesis |-> genesis, delivered |-> defaultUndefinedRound]
    /\ \E disabled \in BOOLEAN :
        node = [ syncedState |-> NoSummary,
                 stateStore |-> [exists |-> FALSE, lastBlock |-> NoSummary],
                 undefinedRound |-> 0, checkpointSyncDisabled |-> disabled,
                 ctxDone |-> FALSE, blockCh |-> <<>>, quitCh |-> "open", initCh |-> "open" ]
    /\ loop = [ pc |-> "start", cachedLastRound |-> 0, lastFullyAppliedRound |-> 0,
                outOfOrderDiffs |-> {}, outOfOrderApplieds |-> {},
                syncingRounds |-> <<>>, hashCache |-> <<>> ]
    /\ tasks = [queued |-> {}, sending |-> {}, finalizing |-> {}, finalized |-> {}]
    /\ wlog = [ applied |-> <<>>, dispatched |-> <<>>, flushed |-> <<>>, notified |-> <<>>,
                faults |-> 0, heldBack |-> FALSE, startRound |-> 0,
                track |-> track, retry |-> NoRetry, skipped |-> {},
                crashCursor |-> defaultUndefinedRound,
                crashFinalized |-> defaultUndefinedRound ]
    /\ watch = WatchOff
    /\ codec = CodecOff

Init == NewNode(FALSE)

\* GetLastSynced / GetStatus: the round of the sync cursor.
GetLastSynced == node.syncedState.round

\* A flush that sets the cursor in memory and does not persist it.
flushSyncedStateNotPersisted(n, summary) == [n EXCEPT !.syncedState = summary]

\* flushSyncedState: the summary becomes the cursor and is persisted.
flushSyncedState(n, summary) ==
    [n EXCEPT !.syncedState = summary,
              !.stateStore = [exists |-> TRUE, lastBlock |-> summary]]

\* The worker returns: the deferred close of the quit channel runs.
Returned(n) == [n EXCEPT !.quitCh = "closed"]

(***************************************************************************)
(* Storage committee worker: restart after a crash.                        *)
(***************************************************************************)
\* The node database after the loop handled one root of a round: the diff is applied
\* unless fetchDiff found the root in the store.
RootSynced(db, round, type, prevRoot, thisRoot) ==
    IF fetchDiff(db, [round |-> round, fetchMask |-> {type},
                      prevRoot |-> prevRoot, thisRoot |-> thisRoot], "ok").fetched
    THEN Apply(db, prevRoot, thisRoot, GetDiff(prevRoot, thisRoot)).db
    ELSE db

\* The node database after the loop applied both roots of the round and finalized it.
RoundSynced(db, genesis, round) ==
    LET this == summaryFromBlock(Block(genesis, round))
        prevState == IF round = genesis THEN Root(genesis, "state", EmptyHash)
                     ELSE summaryFromBlock(Block(genesis, round - 1)).stateRoot
    IN  Finalize(RootSynced(RootSynced(db, round, "io",
                                       Root(round, "io", EmptyHash), this.ioRoot),
                            round, "state", prevState, this.stateRoot),
                 <<this.ioRoot, this.stateRoot>>).db

\* The node database of a worker that synced the rounds from genesis through the given one.
RECURSIVE SyncedDB(_, _)
SyncedDB(genesis, round) ==
    RoundSynced(IF round = genesis THEN initGenesis(NewDB(FALSE, FALSE), genesis).db
                ELSE SyncedDB(genesis, round - 1),
                genesis, round)

\* A node constructed after a crash: the node database holds the rounds through
\* finalized, applied and finalized, and NewNode restores the persisted cursor of an
\* earlier round.
RecoveryInit ==
    /\ batch = NoBatch
    /\ hist = HistInit
    /\ \E genesis \in GenesisRounds, disabled \in BOOLEAN :
        \E cursor \in genesis..MaxRound, finalized \in genesis..MaxRound :
            /\ cursor < finalized
            /\ ndb = SyncedDB(genesis, finalized)
            /\ env = [genesis |-> genesis, delivered |-> defaultUndefinedRound]
            /\ node = [ syncedState |-> summaryFromBlock(Block(genesis, cursor)),
                        stateStore |-> [ exists |-> TRUE,
                                         lastBlock |-> summaryFromBlock(Block(genesis, cursor)) ],
                        undefinedRound |-> 0, checkpointSyncDisabled |-> disabled,
                        ctxDone |-> FALSE, blockCh |-> <<>>, quitCh |-> "open",
                        initCh |-> "open" ]
            /\ wlog = [ applied |-> <<>>, dispatched |-> <<>>, flushed |-> <<>>,
                        notified |-> <<>>, faults |-> 0, heldBack |-> FALSE, startRound |-> 0,
                        track |-> FALSE, retry |-> NoRetry, skipped |-> {},
                        crashCursor |-> cursor, crashFinalized |-> finalized ]
    /\ loop = [ pc |-> "start", cachedLastRound |-> 0, lastFullyAppliedRound |-> 0,
                outOfOrderDiffs |-> {}, outOfOrderApplieds |-> {},
                syncingRounds |-> <<>>, hashCache |-> <<>> ]
    /\ tasks = [queued |-> {}, sending |-> {}, finalizing |-> {}, finalized |-> {}]
    /\ watch = WatchOff
    /\ codec = CodecOff

\* History: the rounds before the given one whose block consensus has not delivered.  A
\* round leaves the history when it is fully applied.
Skipped(e, round) ==
    {i \in e.genesis..(round - 1) : e.delivered = defaultUndefinedRound \/ i > e.delivered}

\* Stop cancels the worker's context.
Stop ==
    /\ loop.pc # "off"
    /\ ~node.ctxDone
    /\ node' = [node EXCEPT !.ctxDone = TRUE]
    /\ UNCHANGED <<watch, codec, ndb, batch, hist, env, loop, tasks, wlog>>

\* HandleNewBlockLocked: consensus delivers a later block of the chain.
HandleNewBlockLocked ==
    /\ loop.pc # "off"
    /\ \E round \in env.genesis..MaxRound :
        /\ env.delivered = defaultUndefinedRound \/ round > env.delivered
        /\ env' = [env EXCEPT !.delivered = round]
        /\ node' = [node EXCEPT !.blockCh = Append(@, Block(env.genesis, round))]
        /\ wlog' = [wlog EXCEPT !.skipped =
                        IF wlog.track THEN @ \cup Skipped(env, round) ELSE @]
    /\ UNCHANGED <<watch, codec, ndb, batch, hist, loop, tasks>>

\* ForceFinalize: the roots of a block the history holds are finalized out of band.
\* The call counts as an interference of the environment.
ForceFinalize ==
    /\ loop.pc # "off"
    /\ env.delivered # defaultUndefinedRound
    /\ wlog.faults < MaxFaults
    /\ \E round \in env.genesis..MaxRound :
        LET summary == summaryFromBlock(Block(env.genesis, round))
        IN  /\ round <= env.delivered
            /\ ndb' = Finalize(ndb, <<summary.ioRoot, summary.stateRoot>>).db
    /\ wlog' = [wlog EXCEPT !.faults = @ + 1]
    /\ UNCHANGED <<watch, codec, batch, hist, env, node, loop, tasks>>

\* The worker is cancelled while it waits for the common node.
WorkerStartCancelled ==
    /\ loop.pc = "start"
    /\ node.ctxDone
    /\ node' = Returned([node EXCEPT !.initCh = "closed"])
    /\ loop' = [loop EXCEPT !.pc = "done"]
    /\ UNCHANGED <<watch, codec, ndb, batch, hist, env, tasks, wlog>>

\* The worker starts: undefined round, cached last round, genesis initialization.
WorkerStart ==
    /\ loop.pc = "start"
    /\ LET undefinedRound == Dec(env.genesis)
           cachedLastRound == StartRound(node.syncedState.round, env.genesis)
           genesis == IF cachedLastRound = undefinedRound
                      THEN initGenesis(ndb, env.genesis) ELSE Result(ndb, "ok")
       IN  /\ ndb' = genesis.db
           /\ IF genesis.err # "ok"
              THEN /\ node' = Returned([node EXCEPT !.undefinedRound = undefinedRound])
                   /\ loop' = [loop EXCEPT !.pc = "done"]
              ELSE /\ node' = [node EXCEPT !.undefinedRound = undefinedRound]
                   /\ loop' = [loop EXCEPT !.pc = "registering",
                                           !.cachedLastRound = cachedLastRound,
                                           !.lastFullyAppliedRound = cachedLastRound]
    /\ UNCHANGED <<watch, codec, batch, hist, env, tasks, wlog>>

\* The node registration finished.
WorkerRegistered ==
    /\ loop.pc = "registering"
    /\ loop' = [loop EXCEPT !.pc = "checkpoint"]
    /\ UNCHANGED <<watch, codec, ndb, batch, hist, env, node, tasks, wlog>>

\* The worker is cancelled while it waits for the registration.
WorkerRegisterCancelled ==
    /\ loop.pc = "registering"
    /\ node.ctxDone
    /\ node' = Returned(node)
    /\ loop' = [loop EXCEPT !.pc = "done"]
    /\ UNCHANGED <<watch, codec, ndb, batch, hist, env, tasks, wlog>>

\* What one attempt of syncCheckpoints can find: no usable checkpoint, or one of a round.
CheckpointChoices == {defaultUndefinedRound} \cup (env.genesis..MaxRound)

SyncAttempt(db, choice) ==
    IF choice = defaultUndefinedRound
    THEN [db |-> db, err |-> "no checkpoint", summary |-> NoSummary]
    ELSE syncCheckpoints(db, env.genesis, choice)

\* Initial sync from checkpoints, tried twice, then the main loop is entered.
WorkerCheckpointSync ==
    /\ loop.pc = "checkpoint"
    /\ IF node.checkpointSyncDisabled
       THEN /\ node' = [node EXCEPT !.initCh = "closed"]
            /\ loop' = [loop EXCEPT !.pc = "loop"]
            /\ wlog' = [wlog EXCEPT !.startRound = loop.cachedLastRound]
            /\ UNCHANGED ndb
       ELSE \E first \in CheckpointChoices, second \in CheckpointChoices :
            \E one \in {SyncAttempt(ndb, first)} :
            \E two \in {IF one.err # "ok" THEN SyncAttempt(one.db, second) ELSE one} :
                /\ one.err = "ok" => second = defaultUndefinedRound
                /\ ndb' = two.db
                /\ IF two.err # "ok"
                   THEN /\ node' = [node EXCEPT !.initCh = "closed"]
                        /\ loop' = [loop EXCEPT !.pc = "loop"]
                        /\ wlog' = [wlog EXCEPT !.startRound = loop.cachedLastRound]
                   ELSE /\ node' = [flushSyncedState(node, two.summary)
                                        EXCEPT !.initCh = "closed"]
                        /\ loop' = [loop EXCEPT !.pc = "loop",
                                                !.cachedLastRound = two.summary.round,
                                                !.lastFullyAppliedRound = two.summary.round]
                        /\ wlog' = [wlog EXCEPT !.startRound = two.summary.round]
    /\ UNCHANGED <<watch, codec, batch, hist, env, tasks>>

\* The loop's first check: a pending diff for the round after the last fully applied one.
CanApply ==
    /\ loop.outOfOrderDiffs # {}
    /\ DiffIsNext(loop.lastFullyAppliedRound, MinRound(loop.outOfOrderDiffs))

\* The loop's second check: an applied round after the last finalized one.
CanFinalize ==
    /\ loop.outOfOrderApplieds # {}
    /\ FinalizeIsNext(loop.cachedLastRound, MinRound(loop.outOfOrderApplieds))

\* A worker that selects on its channels while it still waits for the registration.
AtSelectUnregistered == loop.pc \in {"registering", "loop"} /\ ~CanApply /\ ~CanFinalize

\* The loop reaches its select.
AtSelect == loop.pc = "loop" /\ ~CanApply /\ ~CanFinalize

Without(f, key) == [k \in DOMAIN f \ {key} |-> f[k]]

With(f, key, value) == [k \in DOMAIN f \cup {key} |-> IF k = key THEN value ELSE f[k]]

\* The smallest pending diff is popped and applied; a round with nothing outstanding
\* becomes the last fully applied round and is queued for finalization.
WorkerApply ==
    /\ loop.pc = "loop"
    /\ CanApply
    /\ \E lastDiff \in {d \in loop.outOfOrderDiffs : d.round = MinRound(loop.outOfOrderDiffs)} :
        LET applied == IF lastDiff.fetched
                       THEN Apply(ndb, lastDiff.prevRoot, lastDiff.thisRoot, lastDiff.writeLog)
                       ELSE Result(ndb, "ok")
            syncing == [loop.syncingRounds[lastDiff.round]
                            EXCEPT !.outstanding = @ \ lastDiff.fetchMask]
            synced == syncing.outstanding = maskNone /\ syncing.awaitingRetry = maskNone
        IN  /\ lastDiff.round \in DOMAIN loop.syncingRounds
            /\ lastDiff.round \in DOMAIN loop.hashCache
            /\ ndb' = applied.db
            /\ loop' = [loop EXCEPT
                    !.outOfOrderDiffs = @ \ {lastDiff},
                    !.syncingRounds = IF synced THEN Without(@, lastDiff.round)
                                      ELSE With(@, lastDiff.round, syncing),
                    !.hashCache = IF synced THEN Without(@, Dec(lastDiff.round)) ELSE @,
                    !.lastFullyAppliedRound = IF synced THEN lastDiff.round ELSE @,
                    !.outOfOrderApplieds =
                        IF synced THEN @ \cup {loop.hashCache[lastDiff.round]} ELSE @]
            /\ wlog' = [wlog EXCEPT
                    !.applied = Append(@,
                            [ round |-> lastDiff.round, fetchMask |-> lastDiff.fetchMask,
                              fetched |-> lastDiff.fetched, err |-> applied.err,
                              last |-> loop.lastFullyAppliedRound ]),
                    !.retry = IF @.round = lastDiff.round /\ @.fetchMask = lastDiff.fetchMask
                              THEN NoRetry ELSE @,
                    !.skipped = IF synced THEN @ \ {lastDiff.round} ELSE @]
    /\ UNCHANGED <<watch, codec, batch, hist, env, node, tasks>>

\* The smallest applied round is popped and a finalize goroutine is started for it.
WorkerDispatchFinalize ==
    /\ loop.pc = "loop"
    /\ ~CanApply
    /\ CanFinalize
    /\ \E lastSummary \in {a \in loop.outOfOrderApplieds :
                                a.round = MinRound(loop.outOfOrderApplieds)} :
        /\ loop' = [loop EXCEPT !.outOfOrderApplieds = @ \ {lastSummary}]
        /\ tasks' = [tasks EXCEPT !.finalizing = @ \cup {lastSummary}]
        /\ wlog' = [wlog EXCEPT !.dispatched = Append(@,
                        [ round |-> lastSummary.round, last |-> loop.cachedLastRound,
                          inFlight |-> Cardinality(tasks.finalizing)
                                        + Cardinality(tasks.finalized) ])]
    /\ UNCHANGED <<watch, codec, ndb, batch, hist, env, node>>

\* The hash cache after an incoming block: the dummy summary of the undefined round, the
\* summaries of the old blocks since the last fully applied round, the block's own.
BlockHashCache(blk) ==
    LET last == loop.lastFullyAppliedRound
        dummied == IF last \notin DOMAIN loop.hashCache /\ last = node.undefinedRound
                   THEN With(loop.hashCache, last, dummySummary(last))
                   ELSE loop.hashCache
        startSummaryRound == IF last = node.undefinedRound THEN Inc(last) ELSE last
        old == {i \in startSummaryRound..(blk.round - 1) : i \notin DOMAIN dummied}
    IN  [i \in DOMAIN dummied \cup old \cup {blk.round} |->
            IF i \in DOMAIN dummied THEN dummied[i]
            ELSE IF i \in old THEN summaryFromBlock(Block(env.genesis, i))
            ELSE summaryFromBlock(blk)]

\* A block handler that prepares the sync of the block's own round only.
BlockRoundsOwn(blk) == {blk.round}

\* The rounds an incoming block prepares the sync of.
BlockRounds(blk) == Inc(loop.lastFullyAppliedRound)..blk.round

\* The in-flight record of the round before the block's fetches are submitted.
BlockSyncing(i) ==
    IF i \in DOMAIN loop.syncingRounds THEN loop.syncingRounds[i]
    ELSE [outstanding |-> maskNone, awaitingRetry |-> maskAll]

\* A block handler that fetches both roots of every round it prepares, in flight or not.
BlockFetchMaskAll(i) == maskAll

\* A block handler that fetches for new rounds only and never retries.
BlockFetchMaskNoRetry(i) ==
    IF i \in DOMAIN loop.syncingRounds THEN maskNone ELSE maskAll

\* The root types the block submits a fetch for in the round.
BlockFetchMask(i) ==
    IF i \in DOMAIN loop.syncingRounds /\ loop.syncingRounds[i].outstanding = maskAll
    THEN maskNone
    ELSE BlockSyncing(i).awaitingRetry \ BlockSyncing(i).outstanding

\* A fetchDiff task that chains the I/O root to the I/O root of the round before.
FetchTaskChainedIO(hashCache, i, type) ==
    [ round |-> hashCache[i].round, fetchMask |-> {type},
      prevRoot |-> IF type = "io" THEN hashCache[Dec(i)].ioRoot
                   ELSE hashCache[Dec(i)].stateRoot,
      thisRoot |-> IF type = "io" THEN hashCache[i].ioRoot ELSE hashCache[i].stateRoot ]

\* The fetchDiff task of the round and root type; I/O roots are not chained.
FetchTask(hashCache, i, type) ==
    LET this == hashCache[i]
        prev == hashCache[Dec(i)]
    IN  [ round |-> this.round, fetchMask |-> {type},
          prevRoot |-> IF type = "io" THEN Root(this.ioRoot.version, "io", EmptyHash)
                       ELSE prev.stateRoot,
          thisRoot |-> IF type = "io" THEN this.ioRoot ELSE this.stateRoot ]

\* select: an incoming block arms the fetches of every round up to its own.
WorkerBlock ==
    /\ AtSelect
    /\ node.blockCh # <<>>
    /\ LET blk == Head(node.blockCh)
           hashCache == BlockHashCache(blk)
           rounds == BlockRounds(blk)
       IN  /\ \A i \in rounds : Dec(i) \in DOMAIN hashCache
           /\ node' = [node EXCEPT !.blockCh = Tail(@)]
           /\ loop' = [loop EXCEPT
                   !.hashCache = hashCache,
                   !.syncingRounds =
                        [i \in DOMAIN @ \cup rounds |->
                            IF i \in rounds
                            THEN [ outstanding |->
                                        BlockSyncing(i).outstanding \cup BlockFetchMask(i),
                                   awaitingRetry |->
                                        BlockSyncing(i).awaitingRetry \ BlockFetchMask(i) ]
                            ELSE @[i]]]
           /\ tasks' = [tasks EXCEPT !.queued = @ \cup
                   {FetchTask(hashCache, i[1], i[2]) :
                        i \in {p \in rounds \X maskAll : p[2] \in BlockFetchMask(p[1])}}]
    /\ UNCHANGED <<watch, codec, ndb, batch, hist, env, wlog>>

\* select: a fetchDiff goroutine hands over its result; a failed one awaits a retry.
WorkerDiff ==
    /\ AtSelect
    /\ \E item \in tasks.sending :
        /\ item.round \in DOMAIN loop.syncingRounds
        /\ tasks' = [tasks EXCEPT !.sending = @ \ {item}]
        /\ IF item.err # ""
           THEN /\ loop' = [loop EXCEPT !.syncingRounds[item.round] =
                                [ outstanding |-> @.outstanding \ item.fetchMask,
                                  awaitingRetry |-> @.awaitingRetry \cup item.fetchMask ]]
                /\ wlog' = [wlog EXCEPT !.retry = IF wlog.track THEN Failed(@, item) ELSE @]
           ELSE /\ loop' = [loop EXCEPT !.outOfOrderDiffs = @ \cup {item}]
                /\ wlog' = [wlog EXCEPT !.heldBack =
                                @ \/ item.round # Inc(loop.lastFullyAppliedRound)]
    /\ UNCHANGED <<watch, codec, ndb, batch, hist, env, node>>

\* select: a finalize goroutine hands back its summary; the cursor is flushed and the
\* checkpointer notified.
WorkerFinalized ==
    /\ AtSelect
    /\ \E finalized \in tasks.finalized :
        /\ tasks' = [tasks EXCEPT !.finalized = @ \ {finalized}]
        /\ node' = flushSyncedState(node, finalized.summary)
        /\ loop' = [loop EXCEPT !.cachedLastRound = finalized.summary.round]
        /\ wlog' = [wlog EXCEPT
                !.flushed = Append(@, [round |-> finalized.summary.round,
                                       err |-> finalized.err]),
                !.notified = Append(@, finalized.summary.round)]
    /\ UNCHANGED <<watch, codec, ndb, batch, hist, env>>

\* select: the context is done and the loop is left.
WorkerCancelled ==
    /\ AtSelect
    /\ node.ctxDone
    /\ loop' = [loop EXCEPT !.pc = "wait"]
    /\ UNCHANGED <<watch, codec, ndb, batch, hist, env, node, tasks, wlog>>

\* fetcherGroup.Wait returns once every fetchDiff and finalize goroutine is done.
WorkerReturn ==
    /\ loop.pc = "wait"
    /\ tasks.queued = {} /\ tasks.sending = {}
    /\ tasks.finalizing = {} /\ tasks.finalized = {}
    /\ node' = Returned(node)
    /\ loop' = [loop EXCEPT !.pc = "done"]
    /\ UNCHANGED <<watch, codec, ndb, batch, hist, env, tasks, wlog>>

\* The answers the remote can give to a GetDiff call: the write log, an error, a wrong
\* write log.  A call under a cancelled context may fail as well.
RemoteAnswers(task) ==
    {"ok"} \cup (IF CallsRemote(ndb, task) /\ wlog.faults < MaxFaults
                 THEN {"err", "wrong"} ELSE {})
           \cup (IF CallsRemote(ndb, task) /\ node.ctxDone THEN {"err"} ELSE {})

\* A fetchDiff goroutine of the pool runs up to its deferred send on the diff channel.
FetchRun ==
    /\ \E task \in tasks.queued, answer \in {"ok", "err", "wrong"} :
        /\ answer \in RemoteAnswers(task)
        /\ tasks' = [tasks EXCEPT !.queued = @ \ {task},
                                  !.sending = @ \cup {fetchDiff(ndb, task, answer)}]
        /\ wlog' = [wlog EXCEPT !.faults =
                        IF answer # "ok" /\ wlog.faults < MaxFaults THEN @ + 1 ELSE @]
    /\ UNCHANGED <<watch, codec, ndb, batch, hist, env, node, loop>>

\* A finalize goroutine calls NodeDB().Finalize, which may fail in the store, and goes
\* on to send the summary on the finalize channel whatever the result.
FinalizeRun ==
    /\ \E summary \in tasks.finalizing, storeFails \in BOOLEAN :
        LET r == IF storeFails THEN Result(ndb, "store failure")
                 ELSE Finalize(ndb, <<summary.ioRoot, summary.stateRoot>>)
        IN  /\ storeFails => wlog.faults < MaxFaults
            /\ ndb' = r.db
            /\ tasks' = [tasks EXCEPT !.finalizing = @ \ {summary},
                                      !.finalized = @ \cup {[summary |-> summary,
                                                             err |-> r.err]}]
            /\ wlog' = [wlog EXCEPT !.faults = IF storeFails THEN @ + 1 ELSE @]
    /\ UNCHANGED <<watch, codec, batch, hist, env, node, loop>>

\* The steps of the worker and of its goroutines.
WorkerStep ==
    \/ WorkerStartCancelled
    \/ WorkerStart
    \/ WorkerRegistered
    \/ WorkerRegisterCancelled
    \/ WorkerCheckpointSync
    \/ WorkerApply
    \/ WorkerDispatchFinalize
    \/ WorkerBlock
    \/ WorkerDiff
    \/ WorkerFinalized
    \/ WorkerCancelled
    \/ WorkerReturn
    \/ FetchRun
    \/ FinalizeRun

\* pruneHandler.Prune from its second round on: a round at or above the last synced
\* round ends the request with an error; NodeDB.Prune is called for every other round,
\* in the order given; ErrNotEarliest is skipped and any other error ends the request.
\* calls lists the rounds NodeDB.Prune was called for.
RECURSIVE PruneRounds(_, _, _)
PruneRounds(db, lastSyncedRound, rounds) ==
    IF rounds = <<>> THEN [db |-> db, err |-> "ok", calls |-> <<>>]
    ELSE IF Head(rounds) >= lastSyncedRound
    THEN [db |-> db, err |-> "tried to prune past last synced round", calls |-> <<>>]
    ELSE LET r == Prune(db, Head(rounds))
         IN  IF r.err \in {"ok", "ErrNotEarliest"}
             THEN LET rest == PruneRounds(r.db, lastSyncedRound, Tail(rounds))
                  IN  [rest EXCEPT !.calls = <<Head(rounds)>> \o @]
             ELSE [db |-> r.db, err |-> r.err, calls |-> <<Head(rounds)>>]

\* pruneHandler.Prune: the last synced round is read once, from the sync cursor.
pruneHandlerPrune(db, rounds) == PruneRounds(db, GetLastSynced, rounds)

Next ==
    \/ WorkerStep
    \/ Stop
    \/ HandleNewBlockLocked
    \/ ForceFinalize

Spec == Init /\ [][Next]_vars

\* The worker restarted after a crash.
SpecRecovery == RecoveryInit /\ [][Next]_vars

\* The worker of a runtime whose genesis is round 0, without checkpoint sync, with the
\* history of its failed fetches and skipped blocks recorded.
FetchInit == NewNode(TRUE) /\ env.genesis = 0 /\ node.checkpointSyncDisabled

SpecFetch == FetchInit /\ [][Next]_vars

(***************************************************************************)
(* The roothash client: block notifications and WatchBlocks.               *)
(***************************************************************************)
\* A filter that lets a block of the last emitted round pass again.
MonotonicDropLower(lastRound, round) == lastRound # invalidRound /\ round < lastRound

\* The filter of WatchBlocks: a block is dropped unless its round is above the last
\* emitted round.
MonotonicDrop(lastRound, round) == lastRound # invalidRound /\ round <= lastRound

\* processFinalizedEvent up to the release of the notifiers' lock: the block of a
\* later round becomes the latest block.
ProcessFinalizedBlock ==
    /\ watch.broadcast = <<>>
    /\ \E round \in 0..MaxWatchRound :
        /\ \A i \in 1..Len(watch.lastBlock) : round > watch.lastBlock[i]
        /\ watch' = [watch EXCEPT !.lastBlock = <<round>>, !.broadcast = <<round>>]
    /\ UNCHANGED <<ndb, batch, hist, env, node, loop, tasks, wlog, codec>>

\* processFinalizedEvent, the rest: the block is broadcast to the subscribers.
BroadcastBlock ==
    /\ watch.broadcast # <<>>
    /\ watch' = [watch EXCEPT !.broadcast = <<>>,
                              !.ch = IF watch.subscribed THEN Append(@, watch.broadcast[1])
                                     ELSE @]
    /\ UNCHANGED <<ndb, batch, hist, env, node, loop, tasks, wlog, codec>>

\* WatchBlocks: the subscription replays the latest block, if there is one.
WatchBlocks ==
    /\ ~watch.subscribed
    /\ watch' = [watch EXCEPT !.subscribed = TRUE, !.ch = watch.lastBlock,
                              !.lastRound = invalidRound]
    /\ UNCHANGED <<ndb, batch, hist, env, node, loop, tasks, wlog, codec>>

\* The goroutine of WatchBlocks takes a block from the subscription and emits it on
\* the monotonic channel, or drops it.
MonotonicFilter ==
    /\ watch.ch # <<>>
    /\ watch' = IF MonotonicDrop(watch.lastRound, Head(watch.ch))
                THEN [watch EXCEPT !.ch = Tail(@), !.dropped = Append(@, Head(watch.ch))]
                ELSE [watch EXCEPT !.ch = Tail(@), !.lastRound = Head(watch.ch),
                                   !.emitted = Append(@, Head(watch.ch))]
    /\ UNCHANGED <<ndb, batch, hist, env, node, loop, tasks, wlog, codec>>

WatchNext ==
    \/ ProcessFinalizedBlock
    \/ BroadcastBlock
    \/ WatchBlocks
    \/ MonotonicFilter

SpecWatch == NdbInit /\ [][WatchNext]_vars

(***************************************************************************)
(* Trie nodes: encoding, decoding and extraction.  A byte is a small       *)
(* number, a hash is one number, and every object in memory has an address.*)
(***************************************************************************)
\* The tags of the layout: the two node variants, and the markers of an absent and of
\* a present leaf pointer.
NodePrefix == [leaf |-> 0, internal |-> 1, noLeaf |-> 2, hasLeaf |-> 3]

\* A nil pointer stands for the hash of the empty subtree.
NilPointer == [nil |-> TRUE, addr |-> 0, clean |-> TRUE, hash |-> 10, node |-> FALSE]

\* A pointer with a hash; node tells whether it holds an in-memory node.
Pointer(addr, clean, h, held) ==
    [nil |-> FALSE, addr |-> addr, clean |-> clean, hash |-> h, node |-> held]

\* The hash of a value: it stands for the value's bytes.
ValueHash(value) == [digest |-> value]

\* Bytes needed for a label of the given length in bits.
ToBytes(bits) == (bits + 7) \div 8

LeafNodes ==
    {[ kind |-> "leaf", addr |-> 1, clean |-> c, key |-> k,
       value |-> [addr |-> 2, clean |-> c, hash |-> ValueHash(v), value |-> v] ] :
        c \in BOOLEAN, k \in {<<>>, <<1>>, <<2>>, <<1, 2>>}, v \in {<<>>, <<5>>, <<5, 6>>}}

InternalNodes ==
    {[ kind |-> "internal", addr |-> 1, clean |-> c, label |-> l[1], labelBitLength |-> l[2],
       leafNode |-> lf, left |-> lt, right |-> rt ] :
        c \in BOOLEAN,
        l \in {<<<<>>, 0>>, <<<<1>>, 8>>, <<<<1>>, 5>>, <<<<1, 2>>, 16>>, <<<<1, 2>>, 9>>},
        lf \in {NilPointer, Pointer(3, TRUE, 11, TRUE)},
        lt \in {NilPointer, Pointer(4, TRUE, 12, FALSE)},
        rt \in {NilPointer, Pointer(5, TRUE, 13, FALSE), Pointer(5, FALSE, 12, TRUE)}}

\* MarshalBinary: the tagged layout. A leaf is its key and its value, each with its
\* length; an internal node is the label's bit length, the label, the leaf pointer's
\* hash or the absence marker, and the hashes of the two children.
MarshalBinary(n) ==
    IF n.kind = "leaf"
    THEN <<NodePrefix.leaf, Len(n.key)>> \o n.key \o <<Len(n.value.value)>> \o n.value.value
    ELSE <<NodePrefix.internal, n.labelBitLength>> \o n.label
            \o (IF n.leafNode.nil THEN <<NodePrefix.noLeaf>> ELSE <<NodePrefix.hasLeaf, n.leafNode.hash>>)
            \o <<n.left.hash, n.right.hash>>

\* A decoded pointer: nil for the empty hash, clean and without node otherwise.
DecodedPointer(addr, h) ==
    IF h = NilPointer.hash THEN NilPointer ELSE Pointer(addr, TRUE, h, FALSE)

\* An UnmarshalBinary that leaves the decoded node dirty.
UnmarshalBinaryDirty(raw, addr) ==
    [ kind |-> "leaf", addr |-> addr, clean |-> FALSE, key |-> SubSeq(raw, 3, 2 + raw[2]),
      value |-> [addr |-> addr + 1, clean |-> FALSE, hash |-> ValueHash(<<>>), value |-> <<>>] ]

\* UnmarshalBinary into a node at the address: the layout is parsed field by field.
UnmarshalBinary(raw, addr) ==
    IF raw[1] = NodePrefix.leaf
    THEN LET keyLen == raw[2]
             valueAt == 3 + keyLen
             value == SubSeq(raw, valueAt + 1, valueAt + raw[valueAt])
         IN  [ kind |-> "leaf", addr |-> addr, clean |-> TRUE,
               key |-> SubSeq(raw, 3, 2 + keyLen),
               value |-> [addr |-> addr + 1, clean |-> TRUE, hash |-> ValueHash(value),
                          value |-> value] ]
    ELSE LET labelLen == ToBytes(raw[2])
             leafAt == 3 + labelLen
             hasLeaf == raw[leafAt] = NodePrefix.hasLeaf
             leftAt == IF hasLeaf THEN leafAt + 2 ELSE leafAt + 1
         IN  [ kind |-> "internal", addr |-> addr, clean |-> TRUE,
               label |-> SubSeq(raw, 3, 2 + labelLen), labelBitLength |-> raw[2],
               leafNode |-> IF hasLeaf THEN DecodedPointer(addr + 1, raw[leafAt + 1])
                            ELSE NilPointer,
               left |-> DecodedPointer(addr + 2, raw[leftAt]),
               right |-> DecodedPointer(addr + 3, raw[leftAt + 1]) ]

\* The extracted copy of a pointer: its own object, clean, without node.
ExtractedPointer(ptr, addr) ==
    IF ptr.nil THEN NilPointer ELSE Pointer(addr, TRUE, ptr.hash, FALSE)

\* An Extract whose copy shares the source's value and pointers.
ExtractShared(n, addr) == [n EXCEPT !.addr = addr, !.clean = TRUE]

\* Extract: a clean copy at a new address, with its own value and pointers.
Extract(n, addr) ==
    IF n.kind = "leaf"
    THEN [n EXCEPT !.addr = addr, !.clean = TRUE,
                   !.value = [n.value EXCEPT !.addr = addr + 1, !.clean = TRUE]]
    ELSE [n EXCEPT !.addr = addr, !.clean = TRUE,
                   !.leafNode = ExtractedPointer(n.leafNode, addr + 1),
                   !.left = ExtractedPointer(n.left, addr + 2),
                   !.right = ExtractedPointer(n.right, addr + 3)]

\* A node is built in memory.
CodecNewNode ==
    /\ codec.pc = "idle"
    /\ \E n \in LeafNodes \cup InternalNodes : codec' = [pc |-> "node", node |-> n]
    /\ UNCHANGED <<ndb, batch, hist, env, node, loop, tasks, wlog, watch>>

CodecMarshal ==
    /\ codec.pc = "node"
    /\ codec' = [pc |-> "raw", node |-> codec.node, raw |-> MarshalBinary(codec.node)]
    /\ UNCHANGED <<ndb, batch, hist, env, node, loop, tasks, wlog, watch>>

CodecUnmarshal ==
    /\ codec.pc = "raw"
    /\ codec' = [pc |-> "decoded", node |-> codec.node, raw |-> codec.raw,
                 decoded |-> UnmarshalBinary(codec.raw, 20)]
    /\ UNCHANGED <<ndb, batch, hist, env, node, loop, tasks, wlog, watch>>

CodecExtract ==
    /\ codec.pc = "node"
    /\ codec' = [pc |-> "extracted", node |-> codec.node, extracted |-> Extract(codec.node, 30)]
    /\ UNCHANGED <<ndb, batch, hist, env, node, loop, tasks, wlog, watch>>

CodecNext ==
    \/ CodecNewNode
    \/ CodecMarshal
    \/ CodecUnmarshal
    \/ CodecExtract

SpecCodec == NdbInit /\ [][CodecNext]_vars

\* The worker or one of its goroutines can take a step: the worker is starting, the loop
\* has work or an event to select, the wait for the goroutines is over, or a goroutine
\* is not blocked on a channel.
Runnable ==
    \/ loop.pc \in {"start", "registering", "checkpoint"}
    \/ /\ loop.pc = "loop"
       /\ \/ CanApply \/ CanFinalize
          \/ node.blockCh # <<>> \/ tasks.sending # {} \/ tasks.finalized # {}
          \/ node.ctxDone
    \/ /\ loop.pc = "wait"
       /\ tasks.queued = {} /\ tasks.sending = {}
       /\ tasks.finalizing = {} /\ tasks.finalized = {}
    \/ tasks.queued # {}
    \/ tasks.finalizing # {}

\* Every goroutine that can take a step eventually takes one: weak fairness of
\* WorkerStep, with the enabling condition of WorkerStep written out as Runnable.
FairSpec == Spec /\ ([]<>~Runnable \/ []<><<WorkerStep>>_vars)


(***************************************************************************)
(* Properties of the node database.                                        *)
(***************************************************************************)
\* The typed hashes of the roots handed to a Finalize call.
SelectedRoots(roots) == {typedHashFromRoot(roots[i]) : i \in 1..Len(roots)}

\* Roots reachable from rh along at most n derived-root edges of the roots metadata.
RECURSIVE DerivedWithin(_, _, _)
DerivedWithin(rootsMeta, rh, n) ==
    IF n = 0 \/ rh \notin DOMAIN rootsMeta THEN {rh}
    ELSE {rh} \cup UNION {DerivedWithin(rootsMeta, rootsMeta[rh][i], n - 1) :
                            i \in 1..Len(rootsMeta[rh])}

\* The registered roots of the version that are selected or lead to a selected root.
ExpectedFinalized(db, version, selected) ==
    LET rootsMeta == loadRootsMetadata(db, version)
    IN  {rh \in DOMAIN rootsMeta :
            DerivedWithin(rootsMeta, rh, Cardinality(DOMAIN rootsMeta)) \cap selected # {}}

\* The root is registered and its whole tree can be read.
Readable(db, root) == HasRoot(db, root) /\ Visit(db, root) = "ok"

\* The version is at or before the last finalized one.
IsFinalized(db, version) ==
    db.meta.lastFinalizedExists /\ version <= db.meta.lastFinalizedVersion

\* C6 as stated: in every reachable state, a Finalize of V that succeeds found V-1
\* finalized or no version finalized at all, a running multipart restore included.
C6_FinalizeOnlyAfterPrevious ==
    \A version \in Versions :
        \A roots \in FinalizeInputs(ndb, version) :
            Finalize(ndb, roots).err = "ok" =>
                \/ ~ndb.meta.lastFinalizedExists
                \/ (version > 0 /\ IsFinalized(ndb, version - 1))

\* C6 amended: in every reachable state, a Finalize of V that succeeds found V-1
\* finalized, or no version finalized at all, or a multipart restore of V running.
C6_FinalizeOnlyAfterPreviousUnlessRestoring ==
    \A version \in Versions :
        \A roots \in FinalizeInputs(ndb, version) :
            Finalize(ndb, roots).err = "ok" =>
                \/ ~ndb.meta.lastFinalizedExists
                \/ (version > 0 /\ IsFinalized(ndb, version - 1))
                \/ ndb.multipartVersion = version

\* A Finalize succeeds on top of the finalized previous version, and another one
\* succeeds during a restore although the previous version is not finalized.
C6_Witness ==
    /\ ndb.meta.lastFinalizedExists
    /\ \E version \in Versions :
        \E roots \in FinalizeInputs(ndb, version) :
            /\ Finalize(ndb, roots).err = "ok"
            /\ version > 0
            /\ \/ (ndb.multipartVersion = multipartVersionNone
                        /\ ndb.meta.lastFinalizedVersion = version - 1)
               \/ (ndb.multipartVersion = version
                        /\ ndb.meta.lastFinalizedVersion < version - 1)

\* C7: a Prune of V1 that succeeds leaves every root registered at a finalized later
\* version V2 reported by HasRoot and every node of its tree returned by GetNode.
C7_PruneKeepsLaterRoots ==
    \A v1 \in Versions :
        LET r == Prune(ndb, v1)
        IN  r.err = "ok" =>
                \A v2 \in Versions :
                    (v1 < v2 /\ IsFinalized(ndb, v2)) =>
                        \A root \in RegisteredRoots(ndb, v2) :
                            Readable(ndb, root) => Readable(r.db, root)

\* Nodes of the trees of the given roots.
NodesOfRoots(rhs) == UNION {{typedHashFromParts(rh[1], n) : n \in TreeNodes(rh[2])} : rh \in rhs}

\* C8: after a Finalize of V that succeeds, a node inserted by a batch committed at V is
\* absent when no root of the finalized closure reaches it, and present when the batch
\* committed a root of the closure.
C8_LoneNodesCollected ==
    \A version \in Versions :
        \A roots \in FinalizeInputs(ndb, version) :
            LET r == Finalize(ndb, roots)
                closure == FinalizedRoots(ndb, roots)
                            \cap DOMAIN loadRootsMetadata(ndb, version)
            IN  r.err = "ok" =>
                    \A p \in {q \in hist.puts : q[1] = version} :
                        /\ p[3] \notin NodesOfRoots(closure)
                                => ~NodeVisible(r.db.nodes, p[3], version)
                        /\ p[2] \in closure => NodeVisible(r.db.nodes, p[3], version)

\* C9 as stated: after a Finalize of V that succeeds, the roots registered at V are the
\* selected roots that were committed and the roots a selected root derives from; every
\* other root is gone from HasRoot and no write log ends at it.
C9_FinalizeRetainsClosure ==
    \A version \in Versions :
        \A roots \in FinalizeInputs(ndb, version) :
            LET r == Finalize(ndb, roots)
                before == DOMAIN loadRootsMetadata(ndb, version)
                expected == ExpectedFinalized(ndb, version, SelectedRoots(roots))
            IN  r.err = "ok" =>
                    /\ DOMAIN loadRootsMetadata(r.db, version) = expected
                    /\ \A rh \in before \ expected :
                        /\ ~HasRoot(r.db, Root(version, rh[1], rh[2]))
                        /\ \A w \in r.db.writeLogs : ~(w.version = version /\ w.new = rh)

\* C9 amended: as above, but HasRoot keeps reporting a removed root whose hash is the
\* empty hash, which is always implicitly present.
C9_FinalizeRetainsClosureExceptEmpty ==
    \A version \in Versions :
        \A roots \in FinalizeInputs(ndb, version) :
            LET r == Finalize(ndb, roots)
                before == DOMAIN loadRootsMetadata(ndb, version)
                expected == ExpectedFinalized(ndb, version, SelectedRoots(roots))
            IN  r.err = "ok" =>
                    /\ DOMAIN loadRootsMetadata(r.db, version) = expected
                    /\ \A rh \in before \ expected :
                        /\ rh[2] # EmptyHash => ~HasRoot(r.db, Root(version, rh[1], rh[2]))
                        /\ \A w \in r.db.writeLogs : ~(w.version = version /\ w.new = rh)

\* A Finalize succeeds that keeps a root only because a selected root derives from it
\* and removes another root together with its write log.
C9_Witness ==
    \E version \in Versions :
        \E roots \in FinalizeInputs(ndb, version) :
            LET before == DOMAIN loadRootsMetadata(ndb, version)
                expected == ExpectedFinalized(ndb, version, SelectedRoots(roots))
            IN  /\ Finalize(ndb, roots).err = "ok"
                /\ expected \ SelectedRoots(roots) # {}
                /\ \E rh \in before \ expected :
                    /\ rh[2] # EmptyHash
                    /\ \E w \in ndb.writeLogs : w.version = version /\ w.new = rh

(***************************************************************************)
(* Properties of the storage committee worker.                             *)
(***************************************************************************)
\* The applied entries of the round and root type before position j.
ProcessedBefore(j, round, type) ==
    \E i \in 1..(j - 1) :
        wlog.applied[i].round = round /\ wlog.applied[i].fetchMask = {type}

\* C1: diffs are applied in round order whatever order they arrive in: a diff is popped
\* and applied only for the round after the last fully applied one, applies of a round
\* precede those of the next, and the last fully applied round moves to R only after
\* the I/O and the state diff of R were processed.
C1_AppliesInRoundOrder ==
    LET n == Len(wlog.applied)
    IN  /\ \A j \in 1..n : wlog.applied[j].round = Inc(wlog.applied[j].last)
        /\ \A i, j \in 1..n : i < j => wlog.applied[i].round <= wlog.applied[j].round
        /\ \A j \in 1..n :
            wlog.applied[j].last # wlog.startRound =>
                \A type \in maskAll : ProcessedBefore(j, wlog.applied[j].last, type)
        /\ (loop.pc \in {"loop", "wait"} /\ loop.lastFullyAppliedRound # wlog.startRound) =>
                \A type \in maskAll : ProcessedBefore(n + 1, loop.lastFullyAppliedRound, type)

\* Diffs of two rounds were applied although one of them arrived ahead of its turn.
C1_Witness ==
    /\ wlog.heldBack
    /\ \E i, j \in 1..Len(wlog.applied) : wlog.applied[i].round < wlog.applied[j].round

\* C2: finalizes are dispatched in consecutive round order, each for the round after the
\* last finalized one, and none while the completion of the previous one has not been
\* received: at most one finalize goroutine is in flight.
C2_OneFinalizeInOrder ==
    LET n == Len(wlog.dispatched)
    IN  /\ Cardinality(tasks.finalizing) + Cardinality(tasks.finalized) <= 1
        /\ \A i \in 1..n :
            /\ wlog.dispatched[i].round = Inc(wlog.dispatched[i].last)
            /\ wlog.dispatched[i].inFlight = 0
        /\ \A i \in 1..(n - 1) : wlog.dispatched[i + 1].round = wlog.dispatched[i].round + 1
        /\ n <= Len(wlog.flushed) + 1

\* A finalize is in flight while the next round is applied and waits for its turn, after
\* an earlier finalize has completed.
C2_Witness ==
    /\ Len(wlog.flushed) >= 1
    /\ tasks.finalizing \cup {f.summary : f \in tasks.finalized} # {}
    /\ loop.outOfOrderApplieds # {}

\* C3: the round GetLastSynced and GetStatus report never decreases from one step of the
\* worker to the next.
C3_CursorNeverDecreases ==
    [][node'.syncedState.round >= node.syncedState.round]_vars

\* C4: the cursor is flushed for a round only after the finalize of the round succeeded
\* or reported already-finalized, and its round never exceeds the last finalized version
\* of the node database.
C4_CursorOnlyAfterFinalize ==
    /\ \A i \in 1..Len(wlog.flushed) : wlog.flushed[i].err \in {"ok", "ErrAlreadyFinalized"}
    /\ GetLastSynced # defaultUndefinedRound => IsFinalized(ndb, GetLastSynced)

\* C5: once the context is cancelled the worker has returned and closed the quit channel,
\* or the worker or one of its goroutines can still take a step towards that; no
\* goroutine is left blocked for good.
C5_StopReturns ==
    node.ctxDone => (node.quitCh = "closed" \/ Runnable)

\* The rounds the loop finalizes up to the chain's last round, in order.
RoundsToFinalize ==
    LET first == Inc(wlog.startRound)
    IN  [i \in 1..(MaxRound - first + 1) |-> first + i - 1]

\* An assumption of C10 is broken: a fault was injected, the worker was stopped, or an
\* apply or a finalize failed.
C10_Excused ==
    \/ wlog.faults > 0
    \/ node.ctxDone
    \/ \E i \in 1..Len(wlog.applied) : wlog.applied[i].err # "ok"
    \/ \E i \in 1..Len(wlog.flushed) : wlog.flushed[i].err # "ok"

\* The last round is finalized, the cursor is persisted at it, and the checkpointer was
\* notified once per finalized round in increasing order.
C10_Synced ==
    /\ loop.cachedLastRound = MaxRound
    /\ GetLastSynced = MaxRound
    /\ node.stateStore.exists /\ node.stateStore.lastBlock.round = MaxRound
    /\ wlog.notified = RoundsToFinalize

\* C10: once the block of the last round N is delivered, and with correct write logs and
\* successful applies and finalizes, the worker eventually has finalized N, persisted the
\* cursor at N and notified the checkpointer once per finalized round in increasing order.
C10_EventuallySynced == (env.delivered = MaxRound) ~> (C10_Excused \/ C10_Synced)

\* The worker synced to the last round through the loop with no assumption broken.
C10_Witness ==
    /\ ~C10_Excused
    /\ C10_Synced
    /\ Len(wlog.notified) >= 2

(***************************************************************************)
(* Node database: pruning.                                                 *)
(***************************************************************************)
\* C12: in every reachable state of the node database with a finalized version, the
\* earliest version is at most the last finalized version.
C12_EarliestAtMostLastFinalized ==
    ndb.meta.lastFinalizedExists =>
        ndb.meta.earliestVersion <= ndb.meta.lastFinalizedVersion

\* C13: in every reachable state, Prune of the last finalized version is refused.
C13_PruneRefusesLastFinalized ==
    \A version \in Versions :
        (ndb.meta.lastFinalizedExists /\ version = ndb.meta.lastFinalizedVersion) =>
            Prune(ndb, version).err # "ok"

\* What a failed Prune must leave alone.
PruneUntouched(db, after) ==
    /\ after.meta.earliestVersion = db.meta.earliestVersion
    /\ after.rootsMeta = db.rootsMeta
    /\ after.writeLogs = db.writeLogs
    /\ after.nodes = db.nodes

\* The version is the earliest one and at or before the last finalized one.
PruneAllowed(db, version) ==
    /\ version = db.meta.earliestVersion
    /\ db.meta.lastFinalizedExists
    /\ version <= db.meta.lastFinalizedVersion

\* C14 as stated: a Prune of V succeeds only when V is the earliest version and at most
\* the last finalized one, and then advances the earliest version by exactly one; in
\* every other case it fails with not-earliest or not-finalized, and a failed Prune leaves
\* the earliest version, the roots metadata, the write logs and the nodes unchanged.
C14_PruneOnlyEarliestFinalized ==
    \A version \in Versions :
        LET r == Prune(ndb, version)
        IN  /\ r.err = "ok" =>
                    /\ PruneAllowed(ndb, version)
                    /\ r.db.meta.earliestVersion = ndb.meta.earliestVersion + 1
            /\ ~PruneAllowed(ndb, version) => r.err \in {"ErrNotEarliest", "ErrNotFinalized"}
            /\ r.err # "ok" => PruneUntouched(ndb, r.db)

\* C14 amended: as above, but while a multipart restore is running every Prune fails
\* with multipart-in-progress, whatever the version.
C14_PruneOnlyEarliestFinalizedUnlessRestoring ==
    \A version \in Versions :
        LET r == Prune(ndb, version)
        IN  /\ r.err = "ok" =>
                    /\ PruneAllowed(ndb, version)
                    /\ r.db.meta.earliestVersion = ndb.meta.earliestVersion + 1
            /\ ~PruneAllowed(ndb, version) =>
                    r.err = IF ndb.multipartVersion # multipartVersionNone
                            THEN "ErrMultipartInProgress"
                            ELSE IF PruneNotFinalized(ndb, version) THEN "ErrNotFinalized"
                            ELSE "ErrNotEarliest"
            /\ r.err # "ok" => PruneUntouched(ndb, r.db)

\* Version 0 has been pruned; the Prune of version 1 succeeds, the Prune of version 0
\* fails as not the earliest and the Prune of version 2 fails as not finalized.
C14_Witness ==
    /\ ndb.meta.earliestVersion = 1
    /\ Prune(ndb, 1).err = "ok"
    /\ Prune(ndb, 0).err = "ErrNotEarliest"
    /\ Prune(ndb, 2).err = "ErrNotFinalized"

\* Roots a caller can name at the version: those batches committed, and the empty ones.
KnownRoots(version) ==
    {Root(p[1], p[2][1], p[2][2]) : p \in {q \in hist.puts : q[1] = version}}
        \cup RegisteredRoots(ndb, version)
        \cup {Root(version, t, EmptyHash) : t \in NdbRootTypes}

\* No root of the version is reported and no node is returned under a root of it.
VersionGone(db, version) ==
    /\ GetRootsForVersion(db, version) = {}
    /\ \A root \in KnownRoots(version) :
        /\ ~HasRoot(db, root)
        /\ \A n \in TreeNodes(root.hash) : GetNode(db, root, n) = "ErrNodeNotFound"

\* Every node of the trees of the version's readable roots is still returned afterwards.
VersionKept(db, after, version) ==
    \A root \in RegisteredRoots(db, version) :
        Readable(db, root) =>
            \A n \in TreeNodes(root.hash) : GetNode(after, root, n) = "ok"

\* C15: after the Prune of V-1 that completes the pruning of versions 0..V-1, HasRoot is
\* false for every root below V, GetNode under a root below V fails with node-not-found,
\* GetRootsForVersion is empty below V, and every node reachable from a finalized root at
\* V is still returned.
C15_PrunedVersionsGoneLaterKept ==
    \A version \in Versions :
        LET r == Prune(ndb, version)
        IN  r.err = "ok" =>
                /\ \A v \in 0..version : VersionGone(r.db, v)
                /\ IsFinalized(ndb, version + 1) => VersionKept(ndb, r.db, version + 1)

(***************************************************************************)
(* Node database: failed finalizes.                                        *)
(***************************************************************************)
\* A restore is running for a version other than the given one.
RestoringOther(db, version) ==
    db.multipartVersion # multipartVersionNone /\ db.multipartVersion # version

\* A second Finalize with the same arguments fails as already finalized and changes nothing.
FinalizeTwiceNoOp(db, roots) ==
    LET r == Finalize(db, roots)
    IN  r.err = "ok" => Finalize(r.db, roots) = Result(r.db, "ErrAlreadyFinalized")

\* C16 as stated: a Finalize of V fails with invalid-multipart-version when a restore of
\* another version is running, else with not-finalized when V-1 is not finalized, else
\* with already-finalized when V is at or before the last finalized version; a failed
\* Finalize leaves the store unchanged, and a repeated Finalize is a no-op.
C16_FinalizeFailures ==
    \A version \in Versions :
        \A roots \in FinalizeInputs(ndb, version) :
            LET r == Finalize(ndb, roots)
            IN  /\ RestoringOther(ndb, version) => r.err = "ErrInvalidMultipartVersion"
                /\ (~RestoringOther(ndb, version) /\ version > 0
                        /\ ~IsFinalized(ndb, version - 1)) => r.err = "ErrNotFinalized"
                /\ (~RestoringOther(ndb, version) /\ IsFinalized(ndb, version))
                        => r.err = "ErrAlreadyFinalized"
                /\ r.err # "ok" => r.db = ndb
                /\ FinalizeTwiceNoOp(ndb, roots)

\* C16 amended: not-finalized is returned only when some version has been finalized and
\* no restore is running; a Finalize of V with V-1 not finalized succeeds on a store with
\* no finalized version and during a restore of V.
C16_FinalizeFailuresUnlessFirstOrRestoring ==
    \A version \in Versions :
        \A roots \in FinalizeInputs(ndb, version) :
            LET r == Finalize(ndb, roots)
            IN  /\ RestoringOther(ndb, version) => r.err = "ErrInvalidMultipartVersion"
                /\ (~RestoringOther(ndb, version) /\ version > 0
                        /\ ~IsFinalized(ndb, version - 1))
                        => r.err = IF ndb.meta.lastFinalizedExists
                                      /\ ndb.multipartVersion = multipartVersionNone
                                   THEN "ErrNotFinalized" ELSE "ok"
                /\ (~RestoringOther(ndb, version) /\ IsFinalized(ndb, version))
                        => r.err = "ErrAlreadyFinalized"
                /\ r.err # "ok" => r.db = ndb
                /\ FinalizeTwiceNoOp(ndb, roots)

\* Version 0 is finalized and a root is registered at every version: Finalize of
\* version 2 fails as not finalized, of version 0 as already finalized, and Finalize of
\* version 1 succeeds and fails as already finalized when repeated.
C16_Witness ==
    /\ ndb.meta.lastFinalizedExists /\ ndb.meta.lastFinalizedVersion = 0
    /\ ndb.multipartVersion = multipartVersionNone
    /\ \E r2 \in RegisteredRoots(ndb, 2) : Finalize(ndb, <<r2>>).err = "ErrNotFinalized"
    /\ \E r0 \in RegisteredRoots(ndb, 0) : Finalize(ndb, <<r0>>).err = "ErrAlreadyFinalized"
    /\ \E r1 \in RegisteredRoots(ndb, 1) :
        /\ Finalize(ndb, <<r1>>).err = "ok"
        /\ Finalize(Finalize(ndb, <<r1>>).db, <<r1>>).err = "ErrAlreadyFinalized"

(***************************************************************************)
(* Node database: multipart restore.                                       *)
(***************************************************************************)
\* No restore is running, in memory or in the persisted metadata.
NoRestore(db) ==
    /\ db.multipartVersion = multipartVersionNone
    /\ db.meta.multipartVersion = multipartVersionNone

\* C18: in every reachable state AbortMultipartInsert succeeds; with a restore running
\* it deletes every node of the multipart log at the restore's version, empties the log
\* and clears the marker, touching nothing else; with no restore it changes nothing.
C18_AbortDeletesLoggedNodes ==
    LET r == AbortMultipartInsert(ndb)
        version == ndb.multipartVersion
    IN  /\ r.err = "ok"
        /\ NoRestore(ndb) => r.db = ndb
        /\ ~NoRestore(ndb) =>
                /\ NoRestore(r.db)
                /\ r.db.multipartLog = {}
                /\ \A th \in ndb.multipartLog : ~NodeVisible(r.db.nodes, th, version)
                /\ \A e \in r.db.nodes : e \in ndb.nodes \/ e.th \in ndb.multipartLog
                /\ \A e \in ndb.nodes : e \in r.db.nodes \/ e.th \in ndb.multipartLog
                /\ r.db.rootsMeta = ndb.rootsMeta
                /\ r.db.writeLogs = ndb.writeLogs
                /\ r.db.meta.earliestVersion = ndb.meta.earliestVersion
                /\ r.db.meta.lastFinalizedVersion = ndb.meta.lastFinalizedVersion

\* A restore is running whose log names nodes that are readable, next to a node that
\* is not in the log.
C18_Witness ==
    /\ ndb.multipartVersion # multipartVersionNone
    /\ Cardinality(ndb.multipartLog) >= 2
    /\ \A th \in ndb.multipartLog : NodeVisible(ndb.nodes, th, ndb.multipartVersion)
    /\ \E e \in ndb.nodes : e.th \notin ndb.multipartLog /\ ~e.deleted

\* C20: in every reachable state StartMultipartInsert of V fails with
\* invalid-multipart-version when V is 0 and with multipart-in-progress when a restore of
\* another version is running, both leaving the store unchanged; it succeeds and changes
\* nothing when the restore of V is running, and otherwise sets the marker to V.
C20_StartMultipartInsert ==
    \A version \in Versions :
        LET r == StartMultipartInsert(ndb, version)
        IN  IF version = multipartVersionNone
            THEN r = Result(ndb, "ErrInvalidMultipartVersion")
            ELSE IF ndb.multipartVersion = multipartVersionNone
            THEN /\ r.err = "ok"
                 /\ r.db = [ndb EXCEPT !.multipartVersion = version,
                                        !.meta.multipartVersion = version]
                 /\ StartMultipartInsert(r.db, version) = Result(r.db, "ok")
            ELSE IF ndb.multipartVersion = version
            THEN r = Result(ndb, "ok")
            ELSE r = Result(ndb, "ErrMultipartInProgress")

\* The restore of version 1 is running: a start of version 1 succeeds, a start of
\* version 2 fails as in progress and a start of version 0 as invalid.
C20_Witness ==
    /\ ndb.multipartVersion = 1 /\ ndb.meta.multipartVersion = 1
    /\ StartMultipartInsert(ndb, 1).err = "ok"
    /\ StartMultipartInsert(ndb, 2).err = "ErrMultipartInProgress"
    /\ StartMultipartInsert(ndb, 0).err = "ErrInvalidMultipartVersion"

\* The commit of the filled batch, made while a restore is running, leaves every node it
\* wrote that was not in the store before in the multipart log.
CommitLogged(db, ba, root) ==
    LET r == Commit(db, ba, root)
    IN  (db.multipartVersion # multipartVersionNone /\ r.applied) =>
            \A th \in ba.bat :
                ~NodeVisible(db.nodes, th, ba.version) => th \in r.db.multipartLog

\* C17: in every reachable state with an open batch, whenever the batch was created, a
\* commit of it made while a restore is running records every node it inserts into the
\* store in the multipart log.
C17_RestoreLogsEveryInsert ==
    batch.open =>
        IF batch.chunk
        THEN \A target \in CheckpointInputs(batch.version) :
                CommitLogged(ndb, PutNodes(ndb, batch, TreeNodes(target)),
                             Root(batch.version, batch.oldRoot.type, target))
        ELSE \A wl \in WriteLogInputs :
                CommitLogged(ndb,
                    FillBatch(ndb, batch,
                              ApplyWriteLog(batch.oldRoot.hash, wl, batch.version), wl),
                    Root(batch.version, batch.oldRoot.type,
                         ApplyWriteLog(batch.oldRoot.hash, wl, batch.version)))

\* C19: whenever the store is opened again after a crash, the multipart log is empty
\* afterwards, the marker is 0 and no node that the log of the interrupted restore named
\* is in the store at the restore's version; the crash can have hit between operations,
\* a chunk commit, the cleanup of an abort or the cleanup of an earlier open.
C19_ReopenCleansRestore ==
    [][(ndb.closed /\ ~ndb'.closed) =>
            /\ NoRestore(ndb')
            /\ ndb'.multipartLog = {}
            /\ \A th \in hist.logged \cup ndb.multipartLog :
                    ~NodeVisible(ndb'.nodes, th, hist.crashVersion)]_vars

\* The store is open again after a crash in a chunk commit of a restore and a crash in
\* the cleanup of the open that followed; nodes the log named had reached the store.
C19_Witness ==
    /\ ~ndb.closed
    /\ hist.crashedIn = {"chunk", "reopen"}
    /\ hist.written # {}
    /\ NoRestore(ndb) /\ ndb.multipartLog = {}
    /\ \A th \in hist.logged : ~NodeVisible(ndb.nodes, th, hist.crashVersion)

(***************************************************************************)
(* Storage committee worker: restart after a crash.                        *)
(***************************************************************************)
\* No diff is applied for a round the node database held at the restart, and a round
\* it held is flushed after Finalize answered already-finalized (or the store failed).
RecoveredRoundsNotReapplied ==
    /\ \A i \in 1..Len(wlog.applied) :
            wlog.applied[i].fetched => wlog.applied[i].round > wlog.crashFinalized
    /\ \A i \in 1..Len(wlog.flushed) :
            wlog.flushed[i].round <= wlog.crashFinalized =>
                wlog.flushed[i].err \in {"ErrAlreadyFinalized", "store failure"}

\* The loop moved the cursor from the given round one round at a time.
CursorStepsFrom(round) ==
    /\ \A i \in 1..Len(wlog.flushed) : wlog.flushed[i].round = round + i
    /\ GetLastSynced = round + Len(wlog.flushed)
    /\ node.stateStore.lastBlock.round = round + Len(wlog.flushed)

\* C11 as stated: a worker restarted with the persisted cursor at R over a node database
\* that holds the rounds through R+k applies no diff for a round through R+k, flushes the
\* cursor for such a round although Finalize answers already-finalized, and moves the
\* cursor from R one round at a time.
C11_RecoveryReprocesses ==
    /\ RecoveredRoundsNotReapplied
    /\ CursorStepsFrom(wlog.crashCursor)

\* C11 amended: as above, unless checkpoint sync is enabled and a checkpoint of a round
\* after R+k is restored at the start: the cursor then moves directly to that round and
\* one round at a time from there.
C11_RecoveryReprocessesUnlessCheckpoint ==
    /\ RecoveredRoundsNotReapplied
    /\ \/ CursorStepsFrom(wlog.crashCursor)
       \/ /\ ~node.checkpointSyncDisabled
          /\ wlog.startRound > wlog.crashFinalized
          /\ CursorStepsFrom(wlog.startRound)

\* The worker restarted two rounds behind the node database, applied nothing and moved
\* the cursor through both rounds, Finalize answering already-finalized each time.
C11_Witness ==
    /\ wlog.crashFinalized = wlog.crashCursor + 2
    /\ Len(wlog.flushed) = 2
    /\ \A i \in 1..2 : wlog.flushed[i] = [round |-> wlog.crashCursor + i,
                                           err |-> "ErrAlreadyFinalized"]
    /\ wlog.applied # <<>>
    /\ \A i \in 1..Len(wlog.applied) : ~wlog.applied[i].fetched
    /\ node.stateStore.lastBlock.round = wlog.crashFinalized

(***************************************************************************)
(* Node database: batches.                                                 *)
(***************************************************************************)
\* C21: in every reachable state of the writable store NewBatch returns a writer exactly
\* when the chunk flag agrees with the multipart state and, during a restore, the version
\* is the restore's; a version other than the restore's fails with
\* invalid-multipart-version, and otherwise a disagreeing chunk flag fails with
\* multipart-in-progress.
C21_NewBatchChunkAgrees ==
    \A version \in Versions, chunk \in BOOLEAN :
        \A oldRoot \in OldRootInputs(ndb, version) :
            LET r == NewBatch(ndb, oldRoot, version, chunk)
                restoring == ndb.multipartVersion # multipartVersionNone
                other == restoring /\ ndb.multipartVersion # version
            IN  /\ r.err = "ok" <=> (chunk = restoring /\ ~other)
                /\ other => r.err = "ErrInvalidMultipartVersion"
                /\ (~other /\ chunk # restoring) => r.err = "ErrMultipartInProgress"
                /\ r.err = "ok" => /\ r.batch.open
                                   /\ r.batch.chunk = chunk
                                   /\ r.batch.version = version
                                   /\ r.batch.multipartNodes = restoring
                /\ r.err # "ok" => r.batch = NoBatch

\* The restore of version 1 is running: a chunk batch of version 1 is returned, a plain
\* batch of version 1 fails as in progress and a chunk batch of version 2 as invalid.
C21_Witness ==
    /\ ndb.multipartVersion = 1
    /\ NewBatch(ndb, Root(1, "state", EmptyHash), 1, TRUE).err = "ok"
    /\ NewBatch(ndb, Root(1, "state", EmptyHash), 1, FALSE).err = "ErrMultipartInProgress"
    /\ NewBatch(ndb, Root(2, "state", EmptyHash), 2, TRUE).err = "ErrInvalidMultipartVersion"

\* The commits the open batch can make: the filled batch and the root it commits.
CommitInputs ==
    IF ~batch.open THEN {}
    ELSE IF batch.chunk
    THEN {[ba |-> PutNodes(ndb, batch, TreeNodes(target)),
           root |-> Root(batch.version, batch.oldRoot.type, target)] :
                target \in CheckpointInputs(batch.version)}
    ELSE {[ba |-> FillBatch(ndb, batch,
                            ApplyWriteLog(batch.oldRoot.hash, wl, batch.version), wl),
           root |-> Root(batch.version, batch.oldRoot.type,
                         ApplyWriteLog(batch.oldRoot.hash, wl, batch.version))] :
                wl \in WriteLogInputs}

\* No root is registered at a finalized version by the step.
FinalizedRootsDoNotGrow ==
    \A version \in Versions :
        IsFinalized(ndb, version) =>
            DOMAIN loadRootsMetadata(ndb', version) \subseteq DOMAIN loadRootsMetadata(ndb, version)

C23_ReadOnlyRejectsMutations ==
    \A ro \in OpenReadOnly(ndb) :
        /\ \A version \in Versions :
              /\ \A oldRoot \in OldRootInputs(ro, version), chunk \in BOOLEAN :
                    NewBatch(ro, oldRoot, version, chunk) = [err |-> "ErrReadOnly", batch |-> NoBatch]
              /\ \A roots \in FinalizeInputs(ro, version) :
                    Finalize(ro, roots) = Result(ro, "ErrReadOnly")
              /\ Prune(ro, version) = Result(ro, "ErrReadOnly")
              /\ StartMultipartInsert(ro, version) = Result(ro, "ErrReadOnly")
        /\ AbortMultipartInsert(ro) = Result(ro, "ErrReadOnly")

\* The part of C23 the code keeps: new-batch, finalize and prune fail with the
\* read-only error, and none of the five operations changes a read-only store.
C23_ReadOnlyStoreUnchanged ==
    \A ro \in OpenReadOnly(ndb) :
        /\ \A version \in Versions :
              /\ \A oldRoot \in OldRootInputs(ro, version), chunk \in BOOLEAN :
                    NewBatch(ro, oldRoot, version, chunk) = [err |-> "ErrReadOnly", batch |-> NoBatch]
              /\ \A roots \in FinalizeInputs(ro, version) :
                    Finalize(ro, roots) = Result(ro, "ErrReadOnly")
              /\ Prune(ro, version) = Result(ro, "ErrReadOnly")
              /\ StartMultipartInsert(ro, version).db = ro
              /\ StartMultipartInsert(ro, version).err # "ok"
        /\ AbortMultipartInsert(ro) = Result(ro, "ok")

\* Roots a write log can be asked between: the registered roots and the empty root.
WriteLogRoots ==
    UNION {RegisteredRoots(ndb, version) \cup {Root(version, t, EmptyHash) : t \in NdbRootTypes} :
                version \in Versions}

\* A chain of at most n persisted write-log records that leads from the root from to
\* the root to: each record is persisted at the version of its new root, and its old
\* root is of the same or the previous version.
RECURSIVE WriteLogChain(_, _, _)
WriteLogChain(from, to, n) ==
    /\ n > 0
    /\ \E w \in ndb.writeLogs :
            /\ w.version = to.version /\ w.new = typedHashFromRoot(to)
            /\ \/ w.old = typedHashFromRoot(from)
               \/ \E version \in {v \in Versions : from.version <= v /\ v <= to.version} :
                        /\ to.version <= version + 1
                        /\ WriteLogChain(from, Root(version, w.old[1], w.old[2]), n - 1)

\* The same, for records all persisted at the given version.
RECURSIVE WriteLogChainAt(_, _, _, _)
WriteLogChainAt(version, from, to, n) ==
    /\ n > 0
    /\ \E w \in ndb.writeLogs :
            /\ w.version = version /\ w.new = to
            /\ (w.old = from \/ WriteLogChainAt(version, from, w.old, n - 1))

Occurrences(seq, e) == Cardinality({i \in 1..Len(seq) : seq[i] = e})

SameMultiset(a, b) ==
    /\ Len(a) = Len(b)
    /\ \A i \in 1..Len(a) : Occurrences(a, a[i]) = Occurrences(b, a[i])

\* C25: after a write log is applied from an old root to a new root and committed,
\* get-write-log(old root, new root) returns entries that are equal, as a
\* multiset, to the applied write log.
C25_WriteLogRoundTrip ==
    \A version \in Versions :
        \A oldRoot \in OldRootInputs(ndb, version), wl \in WriteLogInputs :
            LET r == TreeCommit(ndb, oldRoot, version, wl)
                g == GetWriteLog(r.db, oldRoot, r.root)
            IN  r.err = "ok" =>
                    /\ g.err = "ok"
                    /\ \A entries \in g.logs : SameMultiset(entries, wl)

\* The part of C25 the code keeps: the round trip of a commit that creates its root,
\* when the nodes of the new tree can be read.
C25_WriteLogRoundTripOfNewRoot ==
    \A version \in Versions :
        \A oldRoot \in OldRootInputs(ndb, version), wl \in WriteLogInputs :
            LET r == TreeCommit(ndb, oldRoot, version, wl)
                g == GetWriteLog(r.db, oldRoot, r.root)
            IN  (r.err = "ok" /\ r.applied /\ Visit(r.db, r.root) = "ok")
                    => (g.err = "ok" /\ g.logs = {wl})

\* An insert applied on a registered root and committed with success, of which
\* get-write-log finds nothing: the new root was there, committed from another root.
C25_AppliedOnExistingRoot ==
    \E version \in Versions :
        \E oldRoot \in OldRootInputs(ndb, version), wl \in WriteLogInputs :
            LET r == TreeCommit(ndb, oldRoot, version, wl)
            IN  /\ r.err = "ok" /\ wl # <<>> /\ r.root.hash # oldRoot.hash
                /\ GetWriteLog(r.db, oldRoot, r.root).err = "ErrWriteLogNotFound"

\* Roots has-root is asked for: of each version, the empty root, the roots registered
\* at any version and the trees a checkpoint can hold.
HasRootInputs ==
    {Root(version, t, h) : version \in Versions, t \in NdbRootTypes,
                           h \in {EmptyHash} \cup {r.hash : r \in WriteLogRoots}
                                   \cup CheckpointInputs(0)}

InRootsMetadata(root) ==
    /\ root.version \in DOMAIN ndb.rootsMeta
    /\ typedHashFromRoot(root) \in DOMAIN ndb.rootsMeta[root.version]

\* C26: has-root(root) is true if and only if the root's hash is the empty hash,
\* or the root's version is >= earliest-version and the root is in that
\* version's root metadata.
C26_HasRootIff ==
    \A ns \in Namespaces, root \in HasRootInputs :
        HasRootOf(ndb, ns, root) <=>
            \/ root.hash = EmptyHash
            \/ root.version >= ndb.meta.earliestVersion /\ InRootsMetadata(root)

\* C26, amended: for a root of the store's namespace, has-root(root) is true if and
\* only if the root's hash is the empty hash, or the root's version is >=
\* earliest-version and the root is in that version's root metadata; for a root
\* of another namespace it is false.
C26_HasRootIffInNamespace ==
    \A ns \in Namespaces, root \in HasRootInputs :
        HasRootOf(ndb, ns, root) <=>
            /\ ns = StoreNamespace
            /\ \/ root.hash = EmptyHash
               \/ root.version >= ndb.meta.earliestVersion /\ InRootsMetadata(root)

\* has-root answers true for a registered root, true for an empty root that is not
\* registered, false for a tree that is not registered, and false for a root of a
\* pruned version.
C26_Witness ==
    /\ \E root \in HasRootInputs :
            /\ root.hash # EmptyHash /\ InRootsMetadata(root)
            /\ HasRootOf(ndb, StoreNamespace, root)
    /\ \E root \in HasRootInputs :
            /\ root.hash = EmptyHash /\ ~InRootsMetadata(root)
            /\ HasRootOf(ndb, StoreNamespace, root)
    /\ \E root \in HasRootInputs :
            /\ root.version >= ndb.meta.earliestVersion /\ ~InRootsMetadata(root)
            /\ ~HasRootOf(ndb, StoreNamespace, root)
    /\ \E root \in HasRootInputs :
            /\ root.version < ndb.meta.earliestVersion
            /\ ~HasRootOf(ndb, StoreNamespace, root)

\* Requests of the history pruner: rounds in ascending order.
PruneRequests ==
    {<<>>} \cup {<<r>> : r \in 0..MaxRound}
           \cup {p \in (0..MaxRound) \X (0..MaxRound) : p[1] < p[2]}

\* The sync cursor holds a last finalized round.
CursorDefined == GetLastSynced # defaultUndefinedRound

\* C27: the prune handler never calls NodeDB.Prune for a round that is not below
\* the last finalized round of the sync cursor, in every state of the cursor, the
\* state before any round is finalized included; a request with such a round is
\* refused with an error; the rounds below the cursor are pruned in ascending
\* order and a not-earliest from NodeDB.Prune is skipped.
C27_PruneOnlyBelowCursor ==
    \A rounds \in PruneRequests :
        LET r == pruneHandlerPrune(ndb, rounds)
        IN  /\ \A i \in 1..Len(r.calls) : CursorDefined /\ r.calls[i] < GetLastSynced
            /\ (\E i \in 1..Len(rounds) : ~CursorDefined \/ rounds[i] >= GetLastSynced)
                    => r.err # "ok"
            /\ \A i \in 1..Len(r.calls) : r.calls[i] = rounds[i]
            /\ r.err # "ErrNotEarliest"

\* The part of C27 the code keeps: once the cursor holds a round, NodeDB.Prune is
\* called only for rounds below it, in the order of the request, a request with a
\* round at or above it ends in an error, and not-earliest is skipped.
C27_PruneOnlyBelowDefinedCursor ==
    \A rounds \in PruneRequests :
        LET r == pruneHandlerPrune(ndb, rounds)
        IN  /\ \A i \in 1..Len(r.calls) : r.calls[i] < GetLastSynced
            /\ (\E i \in 1..Len(rounds) : rounds[i] >= GetLastSynced) => r.err # "ok"
            /\ \A i \in 1..Len(r.calls) : r.calls[i] = rounds[i]
            /\ r.err # "ErrNotEarliest"

\* No round is finalized according to the cursor, and the handler prunes round 0 of
\* the store.
C27_PrunedBeforeCursor ==
    /\ ~CursorDefined
    /\ pruneHandlerPrune(ndb, <<0>>).err = "ok"
    /\ pruneHandlerPrune(ndb, <<0>>).db.meta.earliestVersion = 1

StrictlyIncreasing(seq) == \A i \in 1..Len(seq), j \in 1..Len(seq) : i < j => seq[i] < seq[j]

\* C28: the blocks emitted to a WatchBlocks subscriber have strictly increasing
\* rounds: a block, the replayed latest block included, whose round is <= the
\* round of the last block delivered to the subscriber is dropped.
C28_WatchBlocksIncreasing ==
    /\ [](StrictlyIncreasing(watch.emitted))
    /\ [][(/\ watch.ch # <<>> /\ watch.emitted # <<>>
           /\ Head(watch.ch) <= watch.emitted[Len(watch.emitted)]
           /\ watch'.ch = Tail(watch.ch))
              => (watch'.emitted = watch.emitted /\ watch'.lastRound = watch.lastRound)]_vars

\* The replayed block and a later block were emitted, and the broadcast of the
\* replayed block was dropped.
C28_Witness ==
    /\ Len(watch.emitted) >= 2
    /\ watch.dropped # <<>>
    /\ watch.dropped[1] = watch.emitted[1]

SamePointerHashes(a, b) ==
    /\ a.leafNode.hash = b.leafNode.hash
    /\ a.left.hash = b.left.hash
    /\ a.right.hash = b.right.hash

\* The pointers of a node that are not nil.
PointersOf(n) == {ptr \in {n.leafNode, n.left, n.right} : ~ptr.nil}

DecodedAsEncoded(n, d) ==
    /\ d.kind = n.kind /\ d.clean
    /\ n.kind = "leaf" =>
            /\ d.key = n.key
            /\ d.value.clean /\ d.value.value = n.value.value
    /\ n.kind = "internal" =>
            /\ d.label = n.label /\ d.labelBitLength = n.labelBitLength
            /\ SamePointerHashes(n, d)
            /\ \A ptr \in PointersOf(d) : ptr.clean
            /\ ~d.left.node /\ ~d.right.node

ExtractedAsSource(n, e) ==
    /\ e.kind = n.kind /\ e.clean /\ e.addr # n.addr
    /\ n.kind = "leaf" =>
            /\ e.key = n.key
            /\ e.value.clean /\ e.value.hash = n.value.hash /\ e.value.value = n.value.value
            /\ e.value.addr # n.value.addr
    /\ n.kind = "internal" =>
            /\ SamePointerHashes(n, e)
            /\ \A ptr \in PointersOf(e) :
                    /\ ptr.clean
                    /\ \A src \in PointersOf(n) : ptr.addr # src.addr

\* C29: a leaf or internal node that is encoded and decoded is a clean node with
\* the same key and value, label, label bit length and pointer hashes, its child
\* pointers clean and without in-memory nodes; an extracted node is a distinct
\* clean copy with the same hashes whose value and pointers are not those of the
\* source.
C29_NodeRoundTrip ==
    /\ codec.pc = "decoded" => DecodedAsEncoded(codec.node, codec.decoded)
    /\ codec.pc = "extracted" => ExtractedAsSource(codec.node, codec.extracted)

\* A dirty internal node with a label that ends inside a byte, a leaf pointer and a
\* dirty child that holds a node has been decoded.
C29_Witness ==
    /\ codec.pc = "decoded"
    /\ codec.node.kind = "internal" /\ ~codec.node.clean
    /\ codec.node.labelBitLength = 9
    /\ ~codec.node.leafNode.nil /\ codec.node.left.nil
    /\ ~codec.node.right.clean /\ codec.node.right.node
    /\ codec.decoded.right.clean /\ codec.decoded.left.nil

\* The loop has applied a diff and the Apply failed.
ApplyFailed ==
    /\ Len(wlog'.applied) = Len(wlog.applied) + 1
    /\ wlog'.applied[Len(wlog'.applied)].err # "ok"

\* C30: when the Apply of a fetched diff of round R fails, R stays unapplied: the
\* last fully applied round does not advance to R, the summary of R is not queued
\* for finalization, and R stays among the rounds being synced, so that its diff
\* is fetched and applied again after a later block.
C30_FailedApplyKeepsRoundUnapplied ==
    [][ApplyFailed =>
            LET round == wlog'.applied[Len(wlog'.applied)].round
            IN  /\ loop'.lastFullyAppliedRound = loop.lastFullyAppliedRound
                /\ loop'.outOfOrderApplieds = loop.outOfOrderApplieds
                /\ round \in DOMAIN loop'.syncingRounds]_vars

\* A round one of whose diffs failed to apply has been finalized in the store and
\* the sync cursor has moved to it.
C30_FailedRoundFinalized ==
    \E i \in 1..Len(wlog.applied) :
        /\ wlog.applied[i].err # "ok"
        /\ GetLastSynced # defaultUndefinedRound
        /\ GetLastSynced >= wlog.applied[i].round

(***************************************************************************)
(* Properties of the worker: fetches and retries.                          *)
(***************************************************************************)
\* The loop takes a block from the block channel in this step.
BlockReceived == node.blockCh # <<>> /\ node'.blockCh = Tail(node.blockCh)

\* The fetches and fetched diffs of the round and root type that a set holds.
OfRoot(items, round, type) == {x \in items : x.round = round /\ x.fetchMask = {type}}

\* The loop takes a failed fetch from the diff channel: its bit goes from outstanding to
\* awaiting retry, and nothing is fetched or queued for applying.
FailedFetchAwaitsRetry(item) ==
    /\ loop'.syncingRounds[item.round].outstanding
            = loop.syncingRounds[item.round].outstanding \ item.fetchMask
    /\ loop'.syncingRounds[item.round].awaitingRetry
            = loop.syncingRounds[item.round].awaitingRetry \cup item.fetchMask
    /\ tasks'.queued = tasks.queued
    /\ loop'.outOfOrderDiffs = loop.outOfOrderDiffs

\* The loop takes a successful fetch from the diff channel: the diff joins the pending
\* diffs, which held no diff of that round and root type.
FetchedDiffPushedOnce(item) ==
    /\ \A type \in item.fetchMask : OfRoot(loop.outOfOrderDiffs, item.round, type) = {}
    /\ loop'.outOfOrderDiffs = loop.outOfOrderDiffs \cup {item}
    /\ loop'.syncingRounds = loop.syncingRounds

\* C31: a failed diff fetch moves its bit from outstanding back to awaiting retry; a fetch
\* is scheduled only when a block is received, and the block received next schedules a
\* fetch for every bit that awaits a retry, however often the fetch failed before; a
\* successful diff is pushed to the pending diffs exactly once.
C31_FailedFetchRetriedOnNextBlock ==
    [][/\ \A item \in tasks.sending \ tasks'.sending :
            IF item.err # "" THEN FailedFetchAwaitsRetry(item)
            ELSE FetchedDiffPushedOnce(item)
       /\ tasks'.queued \ tasks.queued # {} => BlockReceived
       /\ BlockReceived =>
            \A i \in DOMAIN loop.syncingRounds :
                \A type \in loop.syncingRounds[i].awaitingRetry
                                \ loop.syncingRounds[i].outstanding :
                    /\ OfRoot(tasks.queued, i, type) = {}
                    /\ OfRoot(tasks'.queued, i, type) # {}
                    /\ type \in loop'.syncingRounds[i].outstanding
                    /\ type \notin loop'.syncingRounds[i].awaitingRetry]_vars

\* A diff is pending whose fetch had failed twice, each time to be scheduled again by the
\* block received next.
C31_Witness ==
    \E d \in loop.outOfOrderDiffs :
        /\ d.fetched
        /\ wlog.retry.round = d.round
        /\ wlog.retry.fetchMask = d.fetchMask
        /\ wlog.retry.fails = 2

\* The rounds a block of the given round makes the loop prepare: those after the last
\* fully applied round, in unsigned arithmetic.
RoundsToSync(round) == {i \in 0..MaxRound : Inc(loop.lastFullyAppliedRound) <= i /\ i <= round}

\* The bits of the round that await a retry with no fetch outstanding; all of them for a
\* round that has no in-flight record yet.
AwaitingFetch(i) ==
    IF i \in DOMAIN loop.syncingRounds
    THEN loop.syncingRounds[i].awaitingRetry \ loop.syncingRounds[i].outstanding
    ELSE maskAll

\* The root of the round and type as the block history has it.
HistoryRoot(i, type) ==
    IF type = "io" THEN summaryFromBlock(Block(env.genesis, i)).ioRoot
    ELSE summaryFromBlock(Block(env.genesis, i)).stateRoot

\* C32: when the loop receives a block of round R, every round i after the last fully
\* applied round and up to R has an in-flight record afterwards, whether or not its own
\* block was delivered, and a diff fetch is scheduled for every root type of i that
\* awaited a retry with no fetch outstanding, for the root the block history gives.
C32_BlockArmsEveryRound ==
    [][BlockReceived =>
        \A i \in RoundsToSync(Head(node.blockCh).round) :
            /\ i \in DOMAIN loop'.syncingRounds
            /\ \A type \in AwaitingFetch(i) :
                /\ type \in loop'.syncingRounds[i].outstanding
                /\ type \notin loop'.syncingRounds[i].awaitingRetry
                /\ \E t \in OfRoot(tasks'.queued, i, type) :
                        t.thisRoot = HistoryRoot(i, type)]_vars

\* Fetches of both roots are scheduled for a round whose own block was never delivered.
C32_Witness ==
    \E i \in wlog.skipped :
        /\ i \in DOMAIN loop.syncingRounds
        /\ loop.syncingRounds[i].outstanding = maskAll
        /\ \A type \in maskAll :
            \E t \in OfRoot(tasks.queued, i, type) : t.thisRoot = HistoryRoot(i, type)

\* The fetches of the round and root type that are submitted, running or done and not yet
\* taken by the loop, and the fetched diffs of it that wait to be applied.
InFlight(round, type) ==
    Cardinality(OfRoot(tasks.queued, round, type))
        + Cardinality(OfRoot(tasks.sending, round, type))
        + Cardinality(OfRoot(loop.outOfOrderDiffs, round, type))

\* The loop holds the in-flight record and the cached summary of the round, and the
\* record has the bits of the fetch outstanding.
RecordHeld(x) ==
    /\ x.round \in DOMAIN loop.syncingRounds
    /\ x.round \in DOMAIN loop.hashCache
    /\ x.fetchMask \subseteq loop.syncingRounds[x.round].outstanding
    /\ loop.hashCache[x.round].round = x.round

\* C33: every round and root type has at most one diff fetch in flight or fetched diff
\* pending, and as long as there is one the loop holds the in-flight record and the
\* cached summary of the round, so that the record is there when the fetch completes or
\* fails and when its diff is applied; a fetch is submitted only for a round and root
\* type that has none in flight.
C33_OneFetchPerRootRecordHeld ==
    /\ [](/\ \A round \in 0..MaxRound, type \in maskAll : InFlight(round, type) <= 1
          /\ \A x \in tasks.queued \cup tasks.sending \cup loop.outOfOrderDiffs :
                RecordHeld(x))
    /\ [][\A t \in tasks'.queued \ tasks.queued :
            \A type \in t.fetchMask : InFlight(t.round, type) = 0]_vars

\* A diff has been applied, another is pending, a failed fetch awaits its retry and a
\* later round has a fetch in flight, all with their records held.
C33_Witness ==
    /\ wlog.applied # <<>>
    /\ \E d \in loop.outOfOrderDiffs, t \in tasks.queued \cup tasks.sending :
            t.round > d.round
    /\ \E r \in DOMAIN loop.syncingRounds : loop.syncingRounds[r].awaitingRetry # maskNone

(***************************************************************************)
(* Properties of the prune handler.                                        *)
(***************************************************************************)
\* The requests all of whose rounds are below the round of the sync cursor.
PruneRequestsBelowCursor ==
    {rounds \in PruneRequests :
        CursorDefined /\ \A i \in 1..Len(rounds) : rounds[i] < GetLastSynced}

\* C34: the prune handler skips a round for which NodeDB.Prune reports not-earliest or
\* not-finalized: neither error ends a request for rounds below the cursor, and a
\* request that ends without error has had NodeDB.Prune called for each of its rounds.
C34_PruneSkipsNotEarliestNotFinalized ==
    \A rounds \in PruneRequestsBelowCursor :
        /\ pruneHandlerPrune(ndb, rounds).err \notin {"ErrNotEarliest", "ErrNotFinalized"}
        /\ pruneHandlerPrune(ndb, rounds).err = "ok"
                => pruneHandlerPrune(ndb, rounds).calls = rounds

\* The part of C34 the code keeps: not-earliest is skipped.
C34_PruneSkipsNotEarliest ==
    \A rounds \in PruneRequestsBelowCursor :
        /\ pruneHandlerPrune(ndb, rounds).err # "ErrNotEarliest"
        /\ pruneHandlerPrune(ndb, rounds).err = "ok"
                => pruneHandlerPrune(ndb, rounds).calls = rounds

\* A request for a round below the cursor that is not the earliest one ends without an
\* error and leaves the store as it is.
C34_NotEarliestSkipped ==
    \E rounds \in PruneRequestsBelowCursor :
        /\ Len(rounds) = 1
        /\ Prune(ndb, rounds[1]).err = "ErrNotEarliest"
        /\ pruneHandlerPrune(ndb, rounds).err = "ok"
        /\ pruneHandlerPrune(ndb, rounds).db = ndb

(***************************************************************************)
(* Properties of the worker: the roots of a diff fetch.                    *)
(***************************************************************************)
\* The diff fetches submitted and not yet applied, with the roots they were given.
Fetches == tasks.queued \cup tasks.sending \cup loop.outOfOrderDiffs

\* C35: the diff fetch of the I/O root of round R has the empty hash at round R-1 as its
\* previous root, and the diff fetch of the state root of round R has the state root of
\* round R-1.
C35_FetchPrevRoots ==
    \A x \in Fetches :
        /\ x.fetchMask = maskIO => x.prevRoot = Root(Dec(x.round), "io", EmptyHash)
        /\ x.fetchMask = maskState =>
                /\ x.prevRoot.version = Dec(x.round)
                /\ x.round > env.genesis =>
                        x.prevRoot = HistoryRoot(x.round - 1, "state")

\* C35 as the code has it: the I/O fetch of round R starts from the empty hash at round R
\* itself; the state fetch starts from the state root of round R-1, and from the empty
\* state root at round R when R is the genesis round, which follows the undefined round.
C35_FetchPrevRootsAtRound ==
    \A x \in Fetches :
        /\ x.fetchMask \in {maskIO, maskState}
        /\ x.thisRoot = HistoryRoot(x.round, IF x.fetchMask = maskIO THEN "io" ELSE "state")
        /\ x.fetchMask = maskIO => x.prevRoot = Root(x.round, "io", EmptyHash)
        /\ x.fetchMask = maskState =>
                x.prevRoot = IF x.round = env.genesis
                             THEN Root(x.round, "state", EmptyHash)
                             ELSE HistoryRoot(x.round - 1, "state")

\* Fetches of both roots of a round after the genesis round and the state fetch of the
\* genesis round are submitted, and the state root before differs from the empty one.
C35_Witness ==
    /\ \E x \in Fetches : x.fetchMask = maskState /\ x.round = env.genesis
    /\ \E x \in Fetches, y \in Fetches :
            /\ x.round > env.genesis /\ y.round = x.round
            /\ x.fetchMask = maskIO /\ y.fetchMask = maskState
            /\ y.prevRoot.hash # EmptyHash
            /\ HistoryRoot(x.round - 1, "io").hash # EmptyHash

(***************************************************************************)
(* Properties of the worker: registration.                                 *)
(***************************************************************************)
\* The registration callback has not finished for the worker: it has not come to the
\* wait for it, waits for it, or has returned without closing initCh, which a worker
\* past the registration closes before its loop and a worker cancelled while it waits
\* for the common node closes as it returns.
Unregistered ==
    \/ loop.pc \in {"start", "registering"}
    \/ loop.pc = "done" /\ node.initCh = "open"

\* The worker has sent no sync request: no diff fetch was submitted, nothing was fetched
\* or applied, no checkpoint is being restored and the cursor was not flushed.
NothingRequested ==
    /\ tasks.queued = {} /\ tasks.sending = {}
    /\ loop.outOfOrderDiffs = {} /\ loop.syncingRounds = <<>>
    /\ wlog.applied = <<>>
    /\ ndb.multipartVersion = multipartVersionNone
    /\ wlog.flushed = <<>> /\ node.syncedState = node.stateStore.lastBlock

CrashLeavesOrphansOnly(db, ba, left) ==
    /\ left.rootsMeta = db.rootsMeta
    /\ left.updatedNodes = db.updatedNodes
    /\ left.meta = db.meta
    /\ \A version \in Versions : \A r \in RegisteredRoots(db, version) :
            Visit(db, r) = "ok" => Visit(left, r) = "ok"
    /\ (ba.chunk /\ db.multipartVersion # multipartVersionNone) =>
            \A th \in ba.bat :
                (NodeVisible(left.nodes, th, ba.version)
                    /\ ~NodeVisible(db.nodes, th, ba.version)) => th \in left.multipartLog

\* The filled batches and roots the open batch can be committed with.
OpenBatchCommits ==
    IF ~batch.open THEN {}
    ELSE IF batch.chunk
    THEN {<<PutNodes(ndb, batch, TreeNodes(target)),
            Root(batch.version, batch.oldRoot.type, target)>> :
                target \in CheckpointInputs(batch.version)}
    ELSE {<<FillBatch(ndb, batch, ApplyWriteLog(batch.oldRoot.hash, wl, batch.version), wl),
            Root(batch.version, batch.oldRoot.type,
                 ApplyWriteLog(batch.oldRoot.hash, wl, batch.version))>> :
                wl \in WriteLogInputs}

OverlappingFinalizes ==
    IF ~batch.open \/ batch.chunk \/ ndb.multipartVersion # multipartVersionNone THEN {}
    ELSE UNION {{roots \in FinalizeInputs(ndb, version) :
                    \/ batch.oldRoot.hash = EmptyHash
                    \/ \E i \in 1..Len(roots) : roots[i] = batch.oldRoot} :
                version \in {v \in Versions : v < batch.version}}

\* The new root is registered and, unless the old root is empty, linked below it.
Registered(db, ba, root) ==
    /\ typedHashFromRoot(root) \in DOMAIN loadRootsMetadata(db, root.version)
    /\ ba.oldRoot.hash # EmptyHash =>
            \E i \in 1..Len(loadRootsMetadata(db, ba.oldRoot.version)
                                [typedHashFromRoot(ba.oldRoot)]) :
                loadRootsMetadata(db, ba.oldRoot.version)
                    [typedHashFromRoot(ba.oldRoot)][i] = typedHashFromRoot(root)

\* C38: a Finalize of round R that overlaps with a batch commit of a later round gives
\* the same store, the same roots metadata, derived-root links and last finalized
\* version, and the same results whichever of the two takes metaUpdateLock first, and
\* the root the commit registers and its link below the old root are there afterwards.
C38_FinalizeCommitOverlap ==
    \A roots \in OverlappingFinalizes, c \in OpenBatchCommits :
        /\ Cardinality(LockedOverlap(ndb, roots, c[1], c[2])) = 1
        /\ \A out \in LockedOverlap(ndb, roots, c[1], c[2]) :
                Commit(ndb, c[1], c[2]).applied => Registered(out.db, c[1], c[2])

\* A Finalize overlaps with a commit that links a root of a later version below the
\* root that is finalized; both succeed.
C38_Witness ==
    \E roots \in OverlappingFinalizes, c \in OpenBatchCommits :
        /\ batch.oldRoot.hash # EmptyHash
        /\ Commit(ndb, c[1], c[2]).applied
        /\ Finalize(ndb, roots).err = "ok"
        /\ \A out \in LockedOverlap(ndb, roots, c[1], c[2]) :
                out.finalizeErr = "ok" /\ out.commitErr = "ok"

\* C38 in the worker: the Finalize a finalize goroutine is about to call and the Apply
\* of a pending diff of a later round give the same store and the same results in
\* either order.
C38_WorkerOverlap ==
    \A summary \in tasks.finalizing, d \in loop.outOfOrderDiffs :
        (d.fetched /\ d.round > summary.round) =>
            /\ Apply(Finalize(ndb, <<summary.ioRoot, summary.stateRoot>>).db,
                     d.prevRoot, d.thisRoot, d.writeLog).db
                = Finalize(Apply(ndb, d.prevRoot, d.thisRoot, d.writeLog).db,
                           <<summary.ioRoot, summary.stateRoot>>).db
            /\ Apply(Finalize(ndb, <<summary.ioRoot, summary.stateRoot>>).db,
                     d.prevRoot, d.thisRoot, d.writeLog).err
                = Apply(ndb, d.prevRoot, d.thisRoot, d.writeLog).err
            /\ Finalize(Apply(ndb, d.prevRoot, d.thisRoot, d.writeLog).db,
                        <<summary.ioRoot, summary.stateRoot>>).err
                = Finalize(ndb, <<summary.ioRoot, summary.stateRoot>>).err

\* A finalize goroutine and a fetched diff of a later round are pending together.
C38_WorkerOverlapReached ==
    \E summary \in tasks.finalizing, d \in loop.outOfOrderDiffs :
        /\ d.fetched /\ d.round > summary.round /\ d.fetchMask = maskState
        /\ Apply(ndb, d.prevRoot, d.thisRoot, d.writeLog).err = "ok"
        /\ ~HasRoot(ndb, d.thisRoot)
        /\ Finalize(ndb, <<summary.ioRoot, summary.stateRoot>>).err = "ok"

(***************************************************************************)
(* Properties of the worker: what a successful Finalize leaves.            *)
(***************************************************************************)
\* The summaries ForceFinalize can be called with: the blocks the history holds.
ForceFinalizeCalls ==
    IF loop.pc = "off" \/ env.delivered = defaultUndefinedRound THEN {}
    ELSE {summaryFromBlock(Block(env.genesis, round)) : round \in env.genesis..env.delivered}

\* The roots of a summary as Finalize takes them.
StorageRoots(summary) == <<summary.ioRoot, summary.stateRoot>>

\* C39: after a Finalize that returns success, called by a finalize goroutine of the
\* sync loop or by ForceFinalize, every supplied root with a non-empty hash is
\* registered at the version: HasRoot returns true for it.
C39_FinalizedRootsRegistered ==
    \A summary \in tasks.finalizing \cup ForceFinalizeCalls :
        Finalize(ndb, StorageRoots(summary)).err = "ok" =>
            \A i \in 1..2 :
                StorageRoots(summary)[i].hash # EmptyHash =>
                    HasRoot(Finalize(ndb, StorageRoots(summary)).db, StorageRoots(summary)[i])

\* The part of C39 the code keeps: a supplied root that is registered before a
\* successful Finalize is registered after it.
C39_FinalizeKeepsRegisteredRoots ==
    \A summary \in tasks.finalizing \cup ForceFinalizeCalls :
        Finalize(ndb, StorageRoots(summary)).err = "ok" =>
            \A i \in 1..2 :
                HasRoot(ndb, StorageRoots(summary)[i]) =>
                    HasRoot(Finalize(ndb, StorageRoots(summary)).db, StorageRoots(summary)[i])

\* A finalize goroutine of the loop is about to finalize a round one of whose roots is
\* not registered, and the Finalize succeeds.
C39_LoopFinalizesMissingRoot ==
    \E summary \in tasks.finalizing :
        /\ Finalize(ndb, StorageRoots(summary)).err = "ok"
        /\ \E i \in 1..2 :
                ~HasRoot(Finalize(ndb, StorageRoots(summary)).db, StorageRoots(summary)[i])

(***************************************************************************)
(* Properties of the node database: what an aborted restore removes.       *)
(***************************************************************************)
\* Every node a read of the store before could see, at any version, is seen after.
KeepsNodes(before, after) ==
    \A e \in before.nodes : \A ts \in Versions :
        NodeVisible(before.nodes, e.th, ts) => NodeVisible(after.nodes, e.th, ts)

\* A restore is started, one chunk is imported, and the restore is aborted.
RestoreAborted(db, version, type, target) ==
    AbortMultipartInsert(
        RestoreChunk(StartMultipartInsert(db, version).db, version, type, target).db).db

\* A restore is started, one chunk is imported, the process dies and New cleans up.
RestoreCleanedAtOpen(db, version, type, target) ==
    Reopen(Crashed(
        RestoreChunk(StartMultipartInsert(db, version).db, version, type, target).db)).db

\* No restore is running on the open store and one can be started.
RestoreCanStart ==
    /\ ~ndb.closed /\ ~ndb.readOnly
    /\ ndb.multipartVersion = multipartVersionNone
    /\ ndb.meta.multipartVersion = multipartVersionNone

\* C40: aborting a multipart restore, or cleaning it up at open, deletes no node that
\* was in the store before the restore inserted it: a chunk batch records a node in
\* the multipart log only when the node was absent.
C40_AbortKeepsEarlierNodes ==
    RestoreCanStart =>
        \A version \in Versions, type \in NdbRootTypes :
            \A target \in CheckpointInputs(version) :
                /\ KeepsNodes(ndb, RestoreAborted(ndb, version, type, target))
                /\ KeepsNodes(ndb, RestoreCleanedAtOpen(ndb, version, type, target))

\* The part of C40 the code keeps: with no entry left in the multipart log when the
\* restore starts, the abort and the cleanup at open delete no node that was in the
\* store before.
C40_AbortKeepsEarlierNodesEmptyLog ==
    (RestoreCanStart /\ ndb.multipartLog = {}) =>
        \A version \in Versions, type \in NdbRootTypes :
            \A target \in CheckpointInputs(version) :
                /\ KeepsNodes(ndb, RestoreAborted(ndb, version, type, target))
                /\ KeepsNodes(ndb, RestoreCleanedAtOpen(ndb, version, type, target))

\* A chunk batch created in a restore was committed after the restore was aborted: its
\* nodes are in the store and in the multipart log, and no restore is running.
C40_LogOutlivesRestore ==
    /\ RestoreCanStart
    /\ \E th \in ndb.multipartLog : \E ts \in Versions : NodeVisible(ndb.nodes, th, ts)

====
